---- MODULE Spec2Model ----
(***************************************************************************)
(* A model of the document collection and deduplication pipeline of the   *)
(* financial-data-collector: the metadata store (app/storage/             *)
(* data_store.py), the two fetchers (app/collectors/ir_scraper.py and     *)
(* app/collectors/sec_fetcher.py) and the orchestration that drives them  *)
(* (app/scheduler/tasks.py and app/api/routes.py).                        *)
(***************************************************************************)
EXTENDS Integers, Sequences, FiniteSets, TLC

VARIABLES
    \* ---- DataStore (in memory) ----
    companies_info,           \* ticker -> company details
    document_metadata_store,  \* ticker -> [ir |-> Seq(meta), sec |-> Seq(meta)]
    summary_metadata_store,   \* normalised path -> summary metadata
    family_shape,             \* the Python type each of the three attributes holds
    \* ---- the snapshot file data_store.json ----
    storage_file,
    \* ---- observation of the store's use ----
    loaded_from,              \* what the snapshot file held when the store was constructed
    last_op,                  \* the last store operation and whether it raised
    \* ---- the filesystem under data/raw and the calendar ----
    artifacts,                \* path of a downloaded file -> its content
    sidecars,                 \* path of a downloaded file -> its <path>.meta.json
    today,                    \* the current day (datetime.now())
    \* ---- the running trigger (scheduled job or on-demand route) ----
    run,
    \* ---- observation of the run ----
    stage_log,                \* the stages the run has entered, in order
    raised_stages,            \* the stages of the run that ended in an exception
    save_calls,               \* calls of save_to_json the run has made
    add_calls,                \* metadata the stage's loop passed to add_document_metadata
    last_fetch,               \* the last call of a fetcher's download method
    \* ---- the process and its threads ----
    process,                  \* the phase of the process (main.py) and what a stop left behind
    threads,                  \* the position of each thread inside a store or fetcher method
    limiter,                  \* the clock and the requests sent to the hosts of sec.gov
    resolved,                 \* the last call of the filing resolver and what it returned
    links_found               \* the anchors of an IR page and the links grab_ir_links made of them

storeVars == <<companies_info, document_metadata_store, summary_metadata_store,
               family_shape, storage_file, loaded_from, last_op>>

fsVars == <<artifacts, sidecars, today>>

runVars == <<run, stage_log, raised_stages, save_calls, add_calls, last_fetch>>

restVars == <<process, threads, limiter, resolved, links_found>>

vars == <<companies_info, document_metadata_store, summary_metadata_store,
          family_shape, storage_file, loaded_from, last_op,
          artifacts, sidecars, today,
          run, stage_log, raised_stages, save_calls, add_calls, last_fetch,
          process, threads, limiter, resolved, links_found>>

(***************************************************************************)
(* Bounds of the model.                                                    *)
(***************************************************************************)
MaxDocs == 2        \* entries the store holds in total in the store-only specifications
MaxSummaries == 1   \* summaries the store holds in the store-only specifications

(***************************************************************************)
(* Python values.                                                          *)
(***************************************************************************)
None == "<None>"

\* bool(v) of a string-or-None value: None and "" are falsy.
Truthy(v) == v # None /\ v # ""

\* a or b
PyOr(a, b) == IF Truthy(a) THEN a ELSE b

\* str.upper() on the tickers of the model.
upper(t) ==
    CASE t = "wmt" -> "WMT"
      [] t = "amzn" -> "AMZN"
      [] OTHER -> t

EmptyDict == [k \in {} |-> None]

Families == {"companies_info", "document_metadata_store", "summary_metadata_store"}

AllDicts == [f \in Families |-> "dict"]

(***************************************************************************)
(* DataStore.add_document_metadata                                         *)
(***************************************************************************)
\* doc_metadata.get("content_hash_sha256") or doc_metadata.get("url")
DedupKey(m) == PyOr(m.content_hash_sha256, m.url)

\* lines 38-39: the ticker's two lists are created on first use.
WithTicker(d, tu) ==
    IF tu \in DOMAIN d THEN d
    ELSE [k \in DOMAIN d \cup {tu} |->
            IF k = tu THEN [ir |-> <<>>, sec |-> <<>>] ELSE d[k]]

\* lines 49-57: the scan for an entry with the same key, skipped when the
\* new entry has no key.
IsDuplicate(existing_docs, m) ==
    /\ Truthy(DedupKey(m))
    /\ \E i \in 1..Len(existing_docs) : DedupKey(existing_docs[i]) = DedupKey(m)

\* The value of document_metadata_store after the call (the attribute holding a dict).
add_document_metadata(d, ticker, source_type, m) ==
    LET tu == upper(ticker)
        d1 == WithTicker(d, tu)
    IN  IF source_type \notin {"ir", "sec"} THEN d1
        ELSE IF IsDuplicate(d1[tu][source_type], m) THEN d1
        ELSE [d1 EXCEPT ![tu][source_type] = Append(@, m)]

\* Whether the call raises: the attribute holds a list or None (a snapshot of
\* the wrong shape was loaded), so the membership test or the item assignment fails.
AddDocumentRaises(shape) == shape["document_metadata_store"] # "dict"

(***************************************************************************)
(* DataStore.get_document_metadata                                         *)
(***************************************************************************)
\* `ticker_upper not in self.document_metadata_store` raises on None; on a
\* list it is true and the method returns an empty result.
GetDocumentsRaises(shape) == shape["document_metadata_store"] = "null"

(***************************************************************************)
(* DataStore.add_summary_metadata / get_all_summaries_metadata             *)
(***************************************************************************)
\* os.path.normpath on the relative paths of the model (already normal
\* except for a leading "./").
normpath(p) ==
    CASE p = "./WMT/ir/10-K/a.pdf" -> "WMT/ir/10-K/a.pdf"
      [] OTHER -> p

add_summary_metadata(s, path, summary) ==
    LET key == normpath(path)
    IN  [k \in DOMAIN s \cup {key} |-> IF k = key THEN summary ELSE s[k]]

AddSummaryRaises(shape) == shape["summary_metadata_store"] # "dict"

\* With a ticker the method iterates .items(), which a list or None lacks.
GetSummariesRaises(shape) == shape["summary_metadata_store"] # "dict"

(***************************************************************************)
(* DataStore.save_to_json / _load_from_json                                *)
(***************************************************************************)
\* The snapshot file: missing, undecodable text, JSON that is no object, or
\* a JSON object with (some of) the three families, each a dict, a list or null.
MissingFile == [kind |-> "missing", shape |-> AllDicts,
                companies_info |-> EmptyDict,
                document_metadata_store |-> EmptyDict,
                summary_metadata_store |-> EmptyDict]

UndecodableFile == [MissingFile EXCEPT !.kind = "undecodable"]

NotObjectFile == [MissingFile EXCEPT !.kind = "not_object"]

\* The JSON text of a value: json.dump writes None as null, a string in
\* quotes and a number in digits; json.load reads them back.
json_str(v) ==
    IF v = None THEN [j |-> "null", text |-> "null"] ELSE [j |-> "string", text |-> v]

json_num(n) == [j |-> "number", text |-> ToString(n)]

\* A loader that reads null as the empty string.
py_str_NullAsEmpty(t) == IF t.j = "null" THEN "" ELSE t.text

py_str(t) == IF t.j = "null" THEN None ELSE t.text

py_num(t) == CHOOSE n \in 0..99 : ToString(n) = t.text

dump_meta(m) ==
    [f \in DOMAIN m |-> IF f = "downloaded_at" THEN json_num(m[f]) ELSE json_str(m[f])]

load_meta(t) ==
    [f \in DOMAIN t |-> IF t[f].j = "number" THEN py_num(t[f]) ELSE py_str(t[f])]

\* A JSON object keeps its keys (all of them strings here) and a JSON
\* array keeps the order of its elements.
dump_documents(d) ==
    [t \in DOMAIN d |->
        [c \in DOMAIN d[t] |-> [i \in 1..Len(d[t][c]) |-> dump_meta(d[t][c][i])]]]

load_documents(j) ==
    [t \in DOMAIN j |->
        [c \in DOMAIN j[t] |-> [i \in 1..Len(j[t][c]) |-> load_meta(j[t][c][i])]]]

dump_flat(s) == [k \in DOMAIN s |-> [f \in DOMAIN s[k] |-> json_str(s[k][f])]]

load_flat(j) == [k \in DOMAIN j |-> [f \in DOMAIN j[k] |-> py_str(j[k][f])]]

\* json.dump of the three attributes as they are.
Snapshot(c, d, s, shape) ==
    [kind |-> "object", shape |-> shape,
     companies_info |-> dump_flat(c), document_metadata_store |-> dump_documents(d),
     summary_metadata_store |-> dump_flat(s)]

\* What _load_from_json leaves in the attributes. A missing file, a
\* JSONDecodeError and any other exception (.get on a non-dict) end in
\* _initialize_empty_store; an object is taken over family by family,
\* whatever each family holds.
Loaded(file) ==
    IF file.kind = "object"
    THEN [kind |-> "object", shape |-> file.shape,
          companies_info |-> load_flat(file.companies_info),
          document_metadata_store |-> load_documents(file.document_metadata_store),
          summary_metadata_store |-> load_flat(file.summary_metadata_store)]
    ELSE [MissingFile EXCEPT !.kind = "object"]

SnapshotIsValid(file) ==
    file.kind = "object" /\ \A f \in Families : file.shape[f] = "dict"

(***************************************************************************)
(* The store used on its own: the calls a client of DataStore can make.    *)
(***************************************************************************)
UrlPdf == "https://example.com/10k.pdf"
UrlNoExt == "https://example.com/report"
Sha1 == "sha256(c1)"
Sha2 == "sha256(c2)"

\* The fields of a metadata dictionary the store and its callers read;
\* a field the dictionary lacks reads as None (dict.get).
Meta(url, hash, filename, document_filename, ticker, day, filepath_relative) ==
    [url |-> url, content_hash_sha256 |-> hash, filename |-> filename,
     document_filename |-> document_filename, ticker |-> ticker,
     downloaded_at |-> day, filepath_relative |-> filepath_relative]

StoreTickers == {"WMT", "wmt", "AMZN"}
SourceTypes == {"ir", "sec", "other"}
StoreMetas ==
    {Meta(u, h, "a.pdf", None, None, 1, "data/raw/WMT/ir/10-K/a.pdf") :
        u \in {None, UrlPdf, UrlNoExt}, h \in {None, Sha1}}
SummaryPaths == {"WMT/ir/10-K/a.pdf", "./WMT/ir/10-K/a.pdf"}
Summaries == {[summary |-> "s1"]}

RECURSIVE SumLens(_, _)
SumLens(d, ks) ==
    IF ks = {} THEN 0
    ELSE LET k == CHOOSE x \in ks : TRUE
         IN  Len(d[k]["ir"]) + Len(d[k]["sec"]) + SumLens(d, ks \ {k})

TotalDocs(d) == SumLens(d, DOMAIN d)

\* What last_op keeps of a call: the construction, a call that returned, or
\* the operation that raised.
Op(name, raised) ==
    IF raised \/ name = "construct" THEN [op |-> name, raised |-> raised]
    ELSE [op |-> "call", raised |-> FALSE]

AddDocument(t, st, m) ==
    /\ TotalDocs(document_metadata_store) < MaxDocs
    /\ IF AddDocumentRaises(family_shape)
       THEN /\ last_op' = Op("add_document", TRUE)
            /\ UNCHANGED document_metadata_store
       ELSE /\ last_op' = Op("add_document", FALSE)
            /\ document_metadata_store' =
                   add_document_metadata(document_metadata_store, t, st, m)
    /\ UNCHANGED <<companies_info, summary_metadata_store, family_shape,
                   storage_file, loaded_from>>
    /\ UNCHANGED <<fsVars, runVars, restVars>>

GetDocuments(t) ==
    /\ last_op' = Op("get_documents", GetDocumentsRaises(family_shape))
    /\ UNCHANGED <<companies_info, document_metadata_store, summary_metadata_store,
                   family_shape, storage_file, loaded_from>>
    /\ UNCHANGED <<fsVars, runVars, restVars>>

AddSummary(path, summary) ==
    /\ \/ normpath(path) \in DOMAIN summary_metadata_store
       \/ Cardinality(DOMAIN summary_metadata_store) < MaxSummaries
    /\ IF AddSummaryRaises(family_shape)
       THEN /\ last_op' = Op("add_summary", TRUE)
            /\ UNCHANGED summary_metadata_store
       ELSE /\ last_op' = Op("add_summary", FALSE)
            /\ summary_metadata_store' =
                   add_summary_metadata(summary_metadata_store, path, summary)
    /\ UNCHANGED <<companies_info, document_metadata_store, family_shape,
                   storage_file, loaded_from>>
    /\ UNCHANGED <<fsVars, runVars, restVars>>

GetSummaries(t) ==
    /\ last_op' = Op("get_summaries", GetSummariesRaises(family_shape))
    /\ UNCHANGED <<companies_info, document_metadata_store, summary_metadata_store,
                   family_shape, storage_file, loaded_from>>
    /\ UNCHANGED <<fsVars, runVars, restVars>>

\* save_to_json never raises: a failure to create the directory or to open
\* the file leaves the file as it was, a failure while json.dump writes
\* leaves the truncated text behind (open(..., 'w') has emptied the file).
SaveOutcomes == {"written", "open_failed", "write_failed"}

FileAfterSave(outcome, file, c, d, s, shape) ==
    CASE outcome = "written" -> Snapshot(c, d, s, shape)
      [] outcome = "open_failed" -> file
      [] outcome = "write_failed" -> UndecodableFile

SaveToJson(outcome) ==
    /\ storage_file' = FileAfterSave(outcome, storage_file, companies_info,
                           document_metadata_store, summary_metadata_store,
                           family_shape)
    /\ last_op' = Op("save", FALSE)
    /\ UNCHANGED <<companies_info, document_metadata_store, summary_metadata_store,
                   family_shape, loaded_from>>
    /\ UNCHANGED <<fsVars, runVars, restVars>>

FileClass(file) ==
    IF file.kind # "object" THEN file.kind
    ELSE IF SnapshotIsValid(file) THEN "valid" ELSE "malformed_object"

\* DataStore(): the singleton is constructed, which loads the file.
LoadFromJson ==
    /\ companies_info' = Loaded(storage_file).companies_info
    /\ document_metadata_store' = Loaded(storage_file).document_metadata_store
    /\ summary_metadata_store' = Loaded(storage_file).summary_metadata_store
    /\ family_shape' = Loaded(storage_file).shape
    /\ loaded_from' = FileClass(storage_file)
    /\ last_op' = Op("construct", FALSE)
    /\ UNCHANGED storage_file

Construct ==
    /\ LoadFromJson
    /\ UNCHANGED <<fsVars, runVars, restVars>>

ConstructedFrom(file) ==
    /\ storage_file = file
    /\ companies_info = Loaded(file).companies_info
    /\ document_metadata_store = Loaded(file).document_metadata_store
    /\ summary_metadata_store = Loaded(file).summary_metadata_store
    /\ family_shape = Loaded(file).shape
    /\ loaded_from = FileClass(file)
    /\ last_op = Op("construct", FALSE)

\* No trigger has run and data/raw is empty.
\* The JSON body and status code a collection route answers with.
Answer(code, keys, new_documents, details) ==
    [code |-> code, keys |-> keys, new_documents |-> new_documents, details |-> details]

NoAnswer == Answer(0, {}, 0, <<>>)

NoRun == [kind |-> "none", pc |-> "idle", idx |-> 0, ticker |-> None,
          pending |-> <<>>, results |-> <<>>, stored |-> FALSE, runs |-> 0,
          faults |-> 0, answer |-> NoAnswer, failed |-> {}]

NoFetch == [cat |-> None, ticker |-> None, url |-> None, status |-> None,
            raised |-> FALSE, requests |-> 0, prior_stored |-> FALSE,
            clean |-> FALSE, cause |-> None, prior_failed |-> FALSE]

\* main() has started the API server and the scheduler; no request is in
\* progress in any thread, none was sent to sec.gov, the resolver was not called.
Serving == [phase |-> "serving", interrupted |-> FALSE,
            before |-> MissingFile, saving |-> MissingFile]

NoThreads == <<>>

NoRequests == [now |-> 0, sent |-> <<>>]

NotResolved == [called |-> FALSE]
NoLinks == [parsed |-> FALSE, anchors |-> <<>>, links |-> <<>>, next |-> 1,
            download_results |-> <<>>, raised |-> FALSE]

PipelineIdle ==
    /\ threads = NoThreads
    /\ limiter = NoRequests
    /\ resolved = NotResolved
    /\ links_found = NoLinks
    /\ artifacts = EmptyDict
    /\ sidecars = EmptyDict
    /\ today = 1
    /\ run = NoRun
    /\ stage_log = <<>>
    /\ raised_stages = {}
    /\ save_calls = 0
    /\ add_calls = <<>>
    /\ last_fetch = NoFetch

InitStore == ConstructedFrom(MissingFile) /\ PipelineIdle /\ process = Serving

NextStore ==
    \/ \E t \in StoreTickers, st \in SourceTypes, m \in StoreMetas : AddDocument(t, st, m)
    \/ \E t \in StoreTickers : GetDocuments(t)
    \/ \E p \in SummaryPaths, s \in Summaries : AddSummary(p, s)
    \/ \E t \in StoreTickers : GetSummaries(t)
    \/ \E o \in SaveOutcomes : SaveToJson(o)
    \/ Construct

SpecStore == InitStore /\ [][NextStore]_vars

(***************************************************************************)
(* The store constructed over whatever data_store.json holds.              *)
(***************************************************************************)
Shapes == {"dict", "list", "null"}

OneDoc == Meta(UrlPdf, Sha1, "a.pdf", None, None, 1, "data/raw/WMT/ir/10-K/a.pdf")

InitialFiles ==
    {MissingFile, UndecodableFile, NotObjectFile}
    \cup {Snapshot(EmptyDict, EmptyDict, EmptyDict, sh) : sh \in [Families -> Shapes]}
    \cup {Snapshot(EmptyDict,
                   add_document_metadata(EmptyDict, "WMT", "ir", OneDoc),
                   EmptyDict, AllDicts)}

InitLoad ==
    /\ \E file \in InitialFiles : ConstructedFrom(file)
    /\ PipelineIdle
    /\ process = Serving

SpecLoad == InitLoad /\ [][NextStore]_vars

(***************************************************************************)
(* Claims about the store.                                                 *)
(***************************************************************************)
DocLists ==
    {<<t, c>> : t \in DOMAIN document_metadata_store, c \in {"ir", "sec"}}

DocsOf(tc) == document_metadata_store[tc[1]][tc[2]]

\* C1 (as claimed): in every reachable state of the store, no two entries
\* under the same (ticker, category) have the same dedup key, the key being
\* the fingerprint if present, else the source URL (None when both are absent).
\* The code appends an entry without a key unconditionally, so this fails.
C1_DedupInvariant ==
    \A tc \in DocLists :
        \A i, j \in 1..Len(DocsOf(tc)) :
            i # j => DedupKey(DocsOf(tc)[i]) # DedupKey(DocsOf(tc)[j])

\* What the code does keep: entries that have a key never share it.
KeyedDedupInvariant ==
    \A tc \in DocLists :
        \A i, j \in 1..Len(DocsOf(tc)) :
            (i # j /\ Truthy(DedupKey(DocsOf(tc)[i])))
                => DedupKey(DocsOf(tc)[i]) # DedupKey(DocsOf(tc)[j])

SameKeyExists(d, t, c, m) ==
    /\ upper(t) \in DOMAIN d
    /\ \E i \in 1..Len(d[upper(t)][c]) : DedupKey(d[upper(t)][c][i]) = DedupKey(m)

\* C4 (as claimed): add_document(ticker, category, m), called when an entry
\* with the same dedup key exists under (ticker, category), leaves the whole
\* document store as it was. It fails for metadata without fingerprint and
\* URL (the case of C1): the second such entry is appended.
C4_DuplicateInsertIsNoOp ==
    \A t \in StoreTickers, c \in {"ir", "sec"}, m \in StoreMetas :
        SameKeyExists(document_metadata_store, t, c, m)
            => add_document_metadata(document_metadata_store, t, c, m)
                   = document_metadata_store

HasFingerprint(m) == Truthy(m.content_hash_sha256)

\* The duplicate relation C5 states.
ClaimedDuplicate(m, e) ==
    \/ HasFingerprint(m) /\ HasFingerprint(e)
          /\ e.content_hash_sha256 = m.content_hash_sha256
    \/ ~HasFingerprint(m) /\ Truthy(m.url) /\ e.url = m.url

\* The call appended nothing.
Dropped(d, t, c, m) ==
    add_document_metadata(d, t, c, m) = WithTicker(d, upper(t))

\* C5 (as claimed): add_document drops the new entry exactly when some entry
\* under the same (ticker, category) has the same fingerprint as the new
\* entry, or the new entry has no fingerprint and the same URL as that
\* entry, whether or not that entry has a fingerprint. The code compares the
\* new entry's URL with the existing entry's fingerprint in that last case.
C5_DedupKeyPrecedence ==
    \A t \in StoreTickers, c \in {"ir", "sec"}, m \in StoreMetas :
        LET d == WithTicker(document_metadata_store, upper(t))
        IN  Dropped(document_metadata_store, t, c, m)
                <=> \E i \in 1..Len(d[upper(t)][c]) :
                        ClaimedDuplicate(m, d[upper(t)][c][i])

StoreIsEmpty ==
    /\ DOMAIN companies_info = {}
    /\ TotalDocs(document_metadata_store) = 0
    /\ DOMAIN summary_metadata_store = {}

\* C10 (as claimed): a store constructed over a missing snapshot file, or
\* over one that holds no valid snapshot, is empty, add_document,
\* get_documents, add_summary and get_summaries work on it (none raises),
\* and a save that writes the file writes a well-formed snapshot. It fails
\* for a JSON object one of whose families is a list or null.
C10_RecoverableLoad ==
    loaded_from # "valid" =>
        /\ last_op.op = "construct" => StoreIsEmpty
        /\ ~last_op.raised
        /\ ~AddDocumentRaises(family_shape) /\ ~GetDocumentsRaises(family_shape)
        /\ ~AddSummaryRaises(family_shape) /\ ~GetSummariesRaises(family_shape)
        /\ SnapshotIsValid(FileAfterSave("written", storage_file, companies_info,
               document_metadata_store, summary_metadata_store, family_shape))

\* The part of C10 the code keeps: a missing file, undecodable text and
\* JSON that is no object all give an empty, working store.
RecoverableLoadOfNonObjects ==
    loaded_from \in {"missing", "undecodable", "not_object"} =>
        /\ last_op.op = "construct" => StoreIsEmpty
        /\ ~last_op.raised
        /\ family_shape = AllDicts

(***************************************************************************)
(* The company universe (app/collectors/companies.py).                     *)
(***************************************************************************)
MaxCompanies == 2   \* companies of the sample universe the model keeps

SAMPLE_FORTUNE_COMPANIES ==
    << [ticker |-> "WMT",  cik |-> "0000104169"],
       [ticker |-> "AMZN", cik |-> "0001018724"],
       [ticker |-> "AAPL", cik |-> "0000320193"],
       [ticker |-> "CVS",  cik |-> "0000064803"],
       [ticker |-> "UNH",  cik |-> "0000731766"] >>

\* get_fortune_100(): the rows of the CSV, in order.
get_fortune_100 == SubSeq(SAMPLE_FORTUNE_COMPANIES, 1, MaxCompanies)

UniverseTickers == {get_fortune_100[i].ticker : i \in 1..Len(get_fortune_100)}

\* A cell of the cik column that the CSV leaves empty.
EmptyCell == ""

\* pd.read_csv and df['cik'].astype(str): a column of digits is read as
\* integers, which drops the leading zeros; one empty cell makes the cell NaN
\* and the whole column floating point.
astype_str(cell, column_has_nan) ==
    LET digits == CASE cell = "0000104169" -> "104169"
                    [] cell = "0001018724" -> "1018724"
                    [] cell = "0000320193" -> "320193"
                    [] cell = "0000064803" -> "64803"
                    [] cell = "0000731766" -> "731766"
                    [] OTHER -> cell
    IN  IF cell = EmptyCell THEN "nan"
        ELSE IF column_has_nan THEN digits \o ".0"
        ELSE digits

\* .str.zfill(10)
zfill10(text) ==
    CASE text = "nan" -> "0000000nan"
      [] text = "104169" -> "0000104169"
      [] text = "1018724" -> "0001018724"
      [] text = "320193" -> "0000320193"
      [] text = "64803" -> "0000064803"
      [] text = "731766" -> "0000731766"
      [] text = "104169.0" -> "00104169.0"
      [] text = "1018724.0" -> "01018724.0"
      [] text = "320193.0" -> "00320193.0"
      [] text = "64803.0" -> "00064803.0"
      [] text = "731766.0" -> "00731766.0"
      [] OTHER -> text

\* get_company_cik over the rows df: the cik column as zero-padded text, and
\* the cik of the first row with that ticker, else None.
company_cik(df, ticker) ==
    LET rows == {i \in 1..Len(df) : upper(df[i].ticker) = upper(ticker)}
        column_has_nan == \E i \in 1..Len(df) : df[i].cik = EmptyCell
    IN  IF rows = {} THEN None
        ELSE zfill10(astype_str(df[CHOOSE i \in rows : \A j \in rows : i <= j].cik,
                                column_has_nan))

get_company_cik(ticker) == company_cik(get_fortune_100, ticker)

\* cik_str.lstrip('0')
lstrip0(cik) ==
    CASE cik = "0000104169" -> "104169"
      [] cik = "0001018724" -> "1018724"
      [] cik = "0000320193" -> "320193"
      [] cik = "0000064803" -> "64803"
      [] cik = "0000731766" -> "731766"
      [] OTHER -> cik

(***************************************************************************)
(* What a fetch meets: the remote server's answer and the local disk.      *)
(***************************************************************************)
Contents == {"c1", "c2"}

\* hashlib.sha256(...).hexdigest() of the contents of the model.
sha256(content) ==
    CASE content = "c1" -> Sha1
      [] content = "c2" -> Sha2
      [] OTHER -> "sha256(" \o content \o ")"

\* net: the answer to requests.get ("ok", a non-2xx status, a connection
\* error or timeout, or a connection lost while the body streams);
\* fault: the local filesystem step that fails, if any.
Env(net, content, ctype, fault) ==
    [net |-> net, content |-> content, ctype |-> ctype, fault |-> fault]

CleanEnvs ==
    {Env("ok", "c1", "application/pdf", "none"),
     Env("ok", "c1", "text/html", "none"),
     Env("ok", "c2", "application/pdf", "none")}

FailingEnvs ==
    {Env("http_error", "c1", "text/html", "none"),
     Env("connection_error", "c1", "text/html", "none"),
     Env("stream_error", "c1", "text/html", "none"),
     Env("ok", "c1", "text/html", "makedirs"),
     Env("ok", "c1", "text/html", "read_sidecar"),
     Env("ok", "c1", "text/html", "write_artifact"),
     Env("ok", "c1", "text/html", "write_sidecar")}

FetchEnvs == CleanEnvs \cup FailingEnvs

Put(f, k, v) == [x \in DOMAIN f \cup {k} |-> IF x = k THEN v ELSE f[x]]

NoMeta == Meta(None, None, None, None, None, 0, None)

Sidecar(meta) == [ok |-> TRUE, meta |-> meta]

\* A <path>.meta.json that open(..., "w") created and json.dump did not finish.
PartialSidecar == [ok |-> FALSE, meta |-> NoMeta]

Result(success, status, metadata, url) ==
    [success |-> success, status |-> status, metadata |-> metadata, url |-> url]

\* What one call of a download method does: whether it raised, the
\* dictionary it returned, the files afterwards and the GET requests issued.
Fetched(raised, result, arts, sides, requests) ==
    [raised |-> raised, result |-> result, artifacts |-> arts,
     sidecars |-> sides, requests |-> requests]

Raised(arts, sides) ==
    Fetched(TRUE, Result(FALSE, None, NoMeta, None), arts, sides, 0)

(***************************************************************************)
(* IRScraper.download_document                                             *)
(***************************************************************************)
RAW_DATA_DIR == "data/raw"

\* datetime.now().strftime('%Y%m%d')
strftime(day) == "202601" \o (IF day < 10 THEN "0" ELSE "") \o ToString(day)

md5(url) == "md5(" \o url \o ")"

\* doc_type_from_link.replace(" ", "_")
safe_doc_type_dir(type) ==
    CASE type = "Earnings Release" -> "Earnings_Release"
      [] type = "SEC Filings" -> "SEC_Filings"
      [] type = "SEC Filings Page" -> "SEC_Filings_Page"
      [] type = "Financial Document" -> "Financial_Document"
      [] OTHER -> type

\* os.path.splitext(url.split('?')[0])[-1].lower() of the URLs of the model.
splitext(url) ==
    CASE url = UrlPdf -> ".pdf"
      [] url \in {"https://ir.example.com/docs/q3.pdf",
                  "https://ir.example.com/docs/10-K-2025.pdf",
                  "https://ir.example.com/presentation.pdf",
                  "https://ir.example.com/filings/annualreport.pdf"} -> ".pdf"
      [] url = "https://ir.example.com/financials.xlsx" -> ".xlsx"
      [] OTHER -> ""

\* lines 192-194: no extension, or one longer than 5 characters, gives ".html".
file_extension(url) == IF splitext(url) = "" THEN ".html" ELSE splitext(url)

\* lines 225-231: the extension after the Content-Type header was read.
new_ext(ext, content_type) ==
    IF ext # ".html" THEN ext
    ELSE CASE content_type = "application/pdf" -> ".pdf"
           [] content_type = "text/plain" -> ".txt"
           [] OTHER -> ext

ir_company_dir(ticker, type) ==
    RAW_DATA_DIR \o "/" \o upper(ticker) \o "/ir/" \o safe_doc_type_dir(type)

ir_filename(url, day, ext) == strftime(day) \o "_" \o md5(url) \o ext

\* The download itself (lines 217-274), shared by both fetchers: the GET,
\* the write of the artifact, the hash of what was written, the sidecar.
Download(url, filepath, meta, env, arts, sides) ==
    CASE env.net \in {"http_error", "connection_error"} ->
            Fetched(FALSE, Result(FALSE, "failed_download", NoMeta, url), arts, sides, 1)
      [] env.net = "stream_error" ->
            Fetched(FALSE, Result(FALSE, "failed_download", NoMeta, url),
                    Put(arts, filepath, "partial"), sides, 1)
      [] env.net = "ok" /\ env.fault = "write_artifact" ->
            Fetched(FALSE, Result(FALSE, "failed_unexpected", NoMeta, url),
                    Put(arts, filepath, "partial"), sides, 1)
      [] env.net = "ok" /\ env.fault = "write_sidecar" ->
            Fetched(FALSE, Result(FALSE, "failed_unexpected", NoMeta, url),
                    Put(arts, filepath, env.content),
                    Put(sides, filepath, PartialSidecar), 1)
      [] OTHER ->
            Fetched(FALSE, Result(TRUE, "downloaded", meta, url),
                    Put(arts, filepath, env.content),
                    Put(sides, filepath, Sidecar(meta)), 1)

\* lines 201-214 (and sec_fetcher.py 122-134): the file is there and so is its
\* sidecar, which is read back outside any try block.
SkipExisting(filepath, env, arts, sides) ==
    IF env.fault = "read_sidecar" \/ ~sides[filepath].ok
    THEN Raised(arts, sides)
    ELSE Fetched(FALSE, Result(TRUE, "skipped_exists", sides[filepath].meta, None),
                 arts, sides, 0)

download_document(ticker, doc_info, env, day, arts, sides) ==
    LET url == doc_info.url
        company_dir == ir_company_dir(ticker, doc_info.type)
        ext == file_extension(url)
        filepath == company_dir \o "/" \o ir_filename(url, day, ext)
        filename2 == ir_filename(url, day, new_ext(ext, env.ctype))
        filepath2 == company_dir \o "/" \o filename2
        meta == Meta(url, sha256(env.content), filename2, None, None, day, filepath2)
    IN  IF env.fault = "makedirs" THEN Raised(arts, sides)
        ELSE IF filepath \in DOMAIN arts /\ filepath \in DOMAIN sides
        THEN SkipExisting(filepath, env, arts, sides)
        ELSE Download(url, filepath2, meta, env, arts, sides)

(***************************************************************************)
(* SECFetcher.download_filing_document                                     *)
(***************************************************************************)
\* accession_number.replace('-', '')
accession_number_clean(acc) ==
    CASE acc = "0000000001-26-000001" -> "000000000126000001"
      [] acc = "0000000001-26-000002" -> "000000000126000002"
      [] OTHER -> acc

doc_url(ticker, acc, document_filename) ==
    "https://www.sec.gov/Archives/edgar/data/" \o lstrip0(get_company_cik(ticker))
        \o "/" \o accession_number_clean(acc) \o "/" \o document_filename

\* form_type.replace("/", "_")
safe_form_type(form) ==
    CASE form = "10-K/A" -> "10-K_A"
      [] OTHER -> form

filing_dir(ticker, acc, form) ==
    RAW_DATA_DIR \o "/" \o upper(ticker) \o "/sec/" \o safe_form_type(form)
        \o "/" \o accession_number_clean(acc)

download_filing_document(ticker, acc, document_filename, form, env, day, arts, sides) ==
    LET cik_str == get_company_cik(ticker)
        url == doc_url(ticker, acc, document_filename)
        filepath == filing_dir(ticker, acc, form) \o "/" \o document_filename
        meta == Meta(url, sha256(env.content), None, document_filename, ticker, day,
                     filepath)
    IN  IF ~Truthy(cik_str)
        THEN Fetched(FALSE, Result(FALSE, None, NoMeta, None), arts, sides, 0)
        ELSE IF env.fault = "makedirs" THEN Raised(arts, sides)
        ELSE IF filepath \in DOMAIN arts /\ filepath \in DOMAIN sides
        THEN SkipExisting(filepath, env, arts, sides)
        ELSE Download(url, filepath, meta, env, arts, sides)

(***************************************************************************)
(* The orchestration: the scheduled job (app/scheduler/tasks.py) and the   *)
(* on-demand collection routes (app/api/routes.py). One trigger runs at a  *)
(* time; run.pc is its position.                                           *)
(***************************************************************************)
MaxRuns == 2        \* collection requests in one behaviour
MaxJobs == 1        \* scheduled jobs in one behaviour
MaxDays == 2        \* calendar days a behaviour spans
MaxFaults == 1      \* failing requests and failing disk operations in one behaviour

Link(url, text, type) ==
    [url |-> url, text |-> text, type |-> type, source_page |-> "https://ir.example.com"]

LinkPdf == Link(UrlPdf, "Annual Report 10-K", "10-K")
LinkNoExt == Link(UrlNoExt, "10-K download", "10-K")

\* What grab_ir_links may return for a company.
IRPages == {<<>>, <<LinkPdf>>, <<LinkNoExt>>, <<LinkPdf, LinkNoExt>>}

Filing(acc, doc, form) ==
    [accessionNumber |-> acc, primaryDocument |-> doc, form |-> form]

Filing1 == Filing("0000000001-26-000001", "annual-10k.htm", "10-K")

\* What get_recent_filings_metadata may return for a company.
FilingLists == {<<>>, <<Filing1>>}

\* ir_scraper.py line 288: the link is not downloaded.
skip_link(link) ==
    link.type = "SEC Filings Page" /\ link.url \notin {"https://www.sec.gov/cgi-bin/browse-edgar"}

\* The loops of tasks.py 48-51 and 68-71, routes.py 90-93 and 121-124.
IsStored(res) == res.success /\ res.status = "downloaded"

RECURSIVE StoreResults(_, _, _, _)
StoreResults(d, ticker, source_type, results) ==
    IF results = <<>> THEN d
    ELSE LET res == Head(results)
         IN  StoreResults(IF IsStored(res)
                          THEN add_document_metadata(d, ticker, source_type, res.metadata)
                          ELSE d,
                          ticker, source_type, Tail(results))

RECURSIVE PassedToStore(_)
PassedToStore(results) ==
    IF results = <<>> THEN <<>>
    ELSE (IF IsStored(Head(results)) THEN <<Head(results).metadata>> ELSE <<>>)
             \o PassedToStore(Tail(results))

\* A job in which an exception of the IR stage ends the company's turn.
AfterRaise_AbortsCompany(kind, stage) ==
    IF kind = "job" THEN "next" ELSE "done"

\* Where the run goes when a stage raised: the job catches the exception of
\* each stage in a try block of its own (tasks.py 92-105), a route answers 500.
AfterRaise(kind, stage) ==
    IF kind = "job" THEN (IF stage = "ir" THEN "sec" ELSE "next") ELSE "done"

\* Where the run goes when a stage's results were stored.
AfterStage(kind, stage) ==
    IF kind = "job" THEN (IF stage = "ir" THEN "sec" ELSE "next") ELSE "save"

\* A job that saves after every company.
AfterCompany_SavesEachTime(idx, n) == "save"

\* tasks.py 86 and 115-117: the next row of the universe, or the final save.
AfterCompany(idx, n) == IF idx < n THEN "ir" ELSE "save"

Idle == run.pc \in {"idle", "done"}

\* The environments the next request may meet.
PossibleEnvs == IF run.faults < MaxFaults THEN FetchEnvs ELSE CleanEnvs

PossibleSaveOutcomes == IF run.faults < MaxFaults THEN SaveOutcomes ELSE {"written"}

Faults(n, failed) == IF failed THEN n + 1 ELSE n

Begin(kind, pc, idx, ticker, limit) ==
    /\ Idle
    /\ run.runs < limit
    /\ run' = [kind |-> kind, pc |-> pc, idx |-> idx, ticker |-> ticker,
               pending |-> <<>>, results |-> <<>>, stored |-> FALSE,
               runs |-> run.runs + 1, faults |-> run.faults, answer |-> NoAnswer,
               failed |-> run.failed]
    /\ stage_log' = <<>>
    /\ raised_stages' = {}
    /\ save_calls' = 0
    /\ add_calls' = <<>>
    /\ last_fetch' = NoFetch
    /\ UNCHANGED <<storeVars, fsVars, restVars>>

\* daily_collection_job
StartDailyJob ==
    Begin("job", AfterCompany(0, Len(get_fortune_100)), 1, get_fortune_100[1].ticker,
          MaxJobs)

\* The tickers the collection routes are called with.
RouteTickers == {"wmt", "AMZN"}

\* POST /api/collect/ir/<ticker>
StartCollectIR(t) == Begin("route_ir", "ir", 0, upper(t), MaxRuns)

\* POST /api/collect/sec/<ticker>
StartCollectSEC(t) == Begin("route_sec", "sec", 0, upper(t), MaxRuns)

EnterStage(stage, refs) ==
    /\ run.pc = stage
    /\ run' = [run EXCEPT !.pc = stage \o "_fetch", !.pending = refs,
                          !.results = <<>>, !.stored = FALSE]
    /\ stage_log' = Append(stage_log, <<run.ticker, stage>>)
    /\ add_calls' = <<>>
    /\ UNCHANGED <<storeVars, fsVars, raised_stages, save_calls, last_fetch>>
    /\ UNCHANGED restVars

\* process_company: grab_ir_links
GrabIRLinks(links) == EnterStage("ir", links)

\* download_recent_filings_documents: get_recent_filings_metadata
GetRecentFilings(filings) == EnterStage("sec", filings)

\* The paths at which a reference fetched on `day` may have been stored.
TargetPaths(cat, ticker, ref, day) ==
    IF cat = "ir"
    THEN {ir_company_dir(ticker, ref.type) \o "/" \o ir_filename(ref.url, day, e) :
             e \in {file_extension(ref.url), ".pdf", ".txt"}}
    ELSE {filing_dir(ticker, ref.accessionNumber, ref.form) \o "/" \o ref.primaryDocument}

RefUrl(cat, ticker, ref) ==
    IF cat = "ir" THEN ref.url
    ELSE doc_url(ticker, ref.accessionNumber, ref.primaryDocument)

\* An earlier call of the same day stored this reference: its sidecar is on disk.
StoredToday(cat, ticker, ref, day, sides) ==
    \E p \in TargetPaths(cat, ticker, ref, day) \cap DOMAIN sides :
        /\ sides[p].ok
        /\ sides[p].meta.url = RefUrl(cat, ticker, ref)
        /\ sides[p].meta.downloaded_at = day

\* routes.py 95-100 and 126-131: the answer after the save, with the number
\* of downloaded documents in "message", the number of results in
\* "results_summary" and the results in "details".
CollectAnswer(results) ==
    Answer(200, {"message", "results_summary", "details"},
           Len(PassedToStore(results)), results)

\* routes.py 101-102 and 132-133: the answer of the except branch.
ErrorAnswer == Answer(500, {"error"}, 0, <<>>)

\* What went wrong in an environment: the exception that requests or the
\* disk raises there.
Cause(env) ==
    CASE env.net = "http_error" -> "http_status"
      [] env.net \in {"connection_error", "stream_error"} -> "transport"
      [] env.fault # "none" -> "filesystem"
      [] OTHER -> None

(***************************************************************************)
(* The outcome of one reference within a pass.                             *)
(***************************************************************************)
Stored == {"downloaded"}
AlreadyPresent == {"skipped_exists"}
Failed == {"failed_download", "failed_unexpected"}

\* The references whose last fetch ended in Failed, after this fetch of ref.
FailedAfter(failed, stage, ref, result) ==
    IF result.status \in Failed
    THEN failed \cup {<<stage, run.ticker, RefUrl(stage, run.ticker, ref)>>}
    ELSE failed \ {<<stage, run.ticker, RefUrl(stage, run.ticker, ref)>>}

FetchStep(stage, ref, f, env) ==
    /\ artifacts' = f.artifacts
    /\ sidecars' = f.sidecars
    /\ last_fetch' = [cat |-> stage, ticker |-> run.ticker,
                      url |-> RefUrl(stage, run.ticker, ref),
                      status |-> f.result.status, raised |-> f.raised,
                      requests |-> f.requests,
                      prior_stored |-> StoredToday(stage, run.ticker, ref, today, sidecars),
                      clean |-> env.fault = "none", cause |-> Cause(env),
                      prior_failed |->
                          <<stage, run.ticker, RefUrl(stage, run.ticker, ref)>> \in run.failed]
    /\ IF f.raised
       THEN /\ run' = [run EXCEPT !.pc = AfterRaise(run.kind, stage),
                                  !.pending = <<>>, !.results = <<>>,
                                  !.faults = Faults(@, env \in FailingEnvs),
                                  !.answer = IF run.kind = "job" THEN @ ELSE ErrorAnswer]
            /\ raised_stages' = raised_stages \cup {stage}
       ELSE /\ run' = [run EXCEPT !.pending = Tail(@),
                                  !.results = Append(@, f.result),
                                  !.faults = Faults(@, env \in FailingEnvs),
                                  !.failed = FailedAfter(@, stage, ref, f.result)]
            /\ UNCHANGED raised_stages
    /\ UNCHANGED <<storeVars, today, stage_log, save_calls, add_calls>>

\* process_company, one turn of the loop over ir_links (lines 286-296).
DownloadIRDocument(env) ==
    /\ run.pc = "ir_fetch" /\ run.pending # <<>>
    /\ UNCHANGED restVars
    /\ IF skip_link(Head(run.pending))
       THEN /\ run' = [run EXCEPT !.pending = Tail(@)]
            /\ UNCHANGED <<storeVars, fsVars, stage_log, raised_stages,
                           save_calls, add_calls, last_fetch>>
       ELSE FetchStep("ir", Head(run.pending),
                download_document(run.ticker, Head(run.pending), env, today,
                                  artifacts, sidecars), env)

\* download_recent_filings_documents, one turn of the loop over the filings
\* (lines 226-234, primary documents only).
DownloadFilingDocument(env) ==
    /\ run.pc = "sec_fetch" /\ run.pending # <<>>
    /\ UNCHANGED restVars
    /\ LET filing == Head(run.pending)
       IN  FetchStep("sec", filing,
               download_filing_document(run.ticker, filing.accessionNumber,
                   filing.primaryDocument, filing.form, env, today,
                   artifacts, sidecars), env)

\* The loop that stores the stage's results.
StoreStageResults(stage) ==
    /\ run.pc = stage \o "_fetch" /\ run.pending = <<>>
    /\ document_metadata_store' =
           StoreResults(document_metadata_store, run.ticker, stage, run.results)
    /\ add_calls' = PassedToStore(run.results)
    /\ run' = [run EXCEPT !.pc = AfterStage(run.kind, stage), !.stored = TRUE]
    /\ UNCHANGED <<companies_info, summary_metadata_store, family_shape,
                   storage_file, loaded_from, last_op>>
    /\ UNCHANGED <<fsVars, stage_log, raised_stages, save_calls, last_fetch>>
    /\ UNCHANGED restVars

StoreIRResults == StoreStageResults("ir")

StoreSECResults == StoreStageResults("sec")

\* daily_collection_job lines 107-109 and the next turn of the loop.
NextCompany ==
    /\ run.pc = "next"
    /\ LET n == Len(get_fortune_100)
       IN  run' = [run EXCEPT !.pc = AfterCompany(run.idx, n),
                              !.idx = IF run.idx < n THEN run.idx + 1 ELSE run.idx,
                              !.ticker = IF run.idx < n
                                         THEN get_fortune_100[run.idx + 1].ticker
                                         ELSE run.ticker,
                              !.results = <<>>, !.stored = FALSE]
    /\ add_calls' = <<>>
    /\ UNCHANGED <<storeVars, fsVars, stage_log, raised_stages, save_calls, last_fetch>>
    /\ UNCHANGED restVars

\* data_store.save_to_json() at the end of the job or of a route.
SaveRun(outcome) ==
    /\ run.pc = "save"
    /\ storage_file' = FileAfterSave(outcome, storage_file, companies_info,
                           document_metadata_store, summary_metadata_store,
                           family_shape)
    /\ save_calls' = save_calls + 1
    /\ run' = [run EXCEPT !.pc = "done", !.faults = Faults(@, outcome # "written"),
                          !.answer = IF run.kind = "job" THEN @
                                     ELSE CollectAnswer(run.results)]
    /\ UNCHANGED <<companies_info, document_metadata_store, summary_metadata_store,
                   family_shape, loaded_from, last_op>>
    /\ UNCHANGED <<fsVars, stage_log, raised_stages, add_calls, last_fetch>>
    /\ UNCHANGED restVars

\* Midnight passes between two triggers.
NextDay ==
    /\ run.pc = "done"
    /\ today < MaxDays
    /\ today' = today + 1
    /\ UNCHANGED <<storeVars, artifacts, sidecars, runVars, restVars>>

\* The scheduler: the daily job and nothing else.
NextJob ==
    \/ StartDailyJob
    \/ \E links \in IRPages : GrabIRLinks(links)
    \/ \E env \in PossibleEnvs : DownloadIRDocument(env)
    \/ StoreIRResults
    \/ \E filings \in FilingLists : GetRecentFilings(filings)
    \/ \E env \in PossibleEnvs : DownloadFilingDocument(env)
    \/ StoreSECResults
    \/ NextCompany
    \/ \E o \in PossibleSaveOutcomes : SaveRun(o)

SpecJob == InitStore /\ [][NextJob]_vars

\* The API: on-demand collections, one request at a time.
NextRoutes ==
    \/ \E t \in RouteTickers : StartCollectIR(t)
    \/ \E t \in RouteTickers : StartCollectSEC(t)
    \/ \E links \in IRPages : GrabIRLinks(links)
    \/ \E env \in PossibleEnvs : DownloadIRDocument(env)
    \/ StoreIRResults
    \/ \E filings \in FilingLists : GetRecentFilings(filings)
    \/ \E env \in PossibleEnvs : DownloadFilingDocument(env)
    \/ StoreSECResults
    \/ \E o \in PossibleSaveOutcomes : SaveRun(o)
    \/ NextDay

SpecRoutes == InitStore /\ [][NextRoutes]_vars

(***************************************************************************)
(* Properties of the collection pipeline.                                  *)
(***************************************************************************)
Categories == {"ir", "sec"}

Refs(cat) == IF cat = "ir" THEN {LinkPdf, LinkNoExt} ELSE {Filing1}

\* C2: every successful fetch outcome of a stage, AlreadyPresent
\* ("skipped_exists") as well as Stored ("downloaded"), is passed to
\* add_document_metadata by the loop that stores the stage's results.
C2_EverySuccessReachesStore ==
    run.stored =>
        \A i \in 1..Len(run.results) :
            run.results[i].success =>
                \E j \in 1..Len(add_calls) : add_calls[j] = run.results[i].metadata

\* C3: a fetch of a reference that an earlier call of the same day stored for
\* the same (ticker, category) returns AlreadyPresent and issues no request,
\* whatever the URL's extension and the declared content type (the disk works).
C3_SameDayIdempotentFetch ==
    (last_fetch.prior_stored /\ last_fetch.clean) =>
        (last_fetch.status = "skipped_exists" /\ last_fetch.requests = 0)

\* The sidecars of the documents stored for (ticker, category) with fingerprint h.
SidecarsOf(t, cat, h) ==
    {p \in DOMAIN sidecars \cap
            UNION {TargetPaths(cat, t, ref, day) : ref \in Refs(cat), day \in 1..MaxDays} :
        sidecars[p].ok /\ sidecars[p].meta.content_hash_sha256 = h}

\* The last fetch found the content h of (ticker, category) already on disk.
FoundAgain(t, cat, h) ==
    /\ last_fetch.status = "skipped_exists"
    /\ last_fetch.ticker = t
    /\ last_fetch.cat = cat
    /\ \E p \in SidecarsOf(t, cat, h) : sidecars[p].meta.url = last_fetch.url

FetchedMoreThanOnce(t, cat, h) ==
    \/ Cardinality(SidecarsOf(t, cat, h)) >= 2
    \/ FoundAgain(t, cat, h)

EntriesWith(t, cat, h) ==
    LET docs == IF t \in DOMAIN document_metadata_store
                THEN DocsOf(<<t, cat>>) ELSE <<>>
    IN  Cardinality({i \in 1..Len(docs) : docs[i].content_hash_sha256 = h})

AtMostOneEntryPerContent ==
    \A t \in UniverseTickers, cat \in Categories, c \in Contents :
        EntriesWith(t, cat, sha256(c)) <= 1

\* C7: download_document and download_filing_document never raise to their
\* caller, whatever fails: the network, the response status, or the disk.
C7_FetchNeverRaises == ~last_fetch.raised

\* The stages of a full pass, in the order of the universe.
ExpectedLog ==
    [k \in 1..(2 * Len(get_fortune_100)) |->
        <<get_fortune_100[(k + 1) \div 2].ticker, IF k % 2 = 1 THEN "ir" ELSE "sec">>]

IsPrefix(a, b) == Len(a) <= Len(b) /\ a = SubSeq(b, 1, Len(a))

\* C8: in a full pass the stages run company by company in universe order, IR
\* then SEC, and the pass reaches its end with both stages of every company
\* attempted, whichever stages raised.
C8_StagesInOrder ==
    run.kind = "job" =>
        /\ IsPrefix(stage_log, ExpectedLog)
        /\ run.pc \in {"save", "done"} => stage_log = ExpectedLog

C8_PassCompletedAfterIRException ==
    /\ run.kind = "job" /\ run.pc = "done"
    /\ "ir" \in raised_stages
    /\ stage_log = ExpectedLog

\* C9: a full pass calls save_to_json exactly once, after the last company
\* of the universe, whether or not stages raised or documents failed.
C9_SingleSaveAtEnd ==
    run.kind = "job" =>
        /\ run.pc = "done" => save_calls = 1
        /\ run.pc # "done" => save_calls = 0
        /\ run.pc = "save" =>
               /\ run.idx = Len(get_fortune_100)
               /\ Len(stage_log) = 2 * Len(get_fortune_100)

C9_SavedOnceAfterFailure ==
    /\ run.kind = "job" /\ run.pc = "done"
    /\ raised_stages # {}
    /\ save_calls = 1

(***************************************************************************)
(* The life of the process: the import of app.storage.data_store builds    *)
(* the singleton, main() (main.py) starts the API server and the           *)
(* scheduler, the process may stop while it saves, and is started again.   *)
(***************************************************************************)
Imported == [Serving EXCEPT !.phase = "imported"]

\* main.py lines 29-33: the snapshot file exists, so main calls
\* data_store.load_from_json(path), a method DataStore does not have
\* (it has _load_from_json, without a parameter): AttributeError.
main_outcome(file) == IF file.kind # "missing" THEN "crashed" ELSE "serving"

\* main(): runs up to app.run, or ends in the exception.
Main ==
    /\ process.phase = "imported"
    /\ process' = [process EXCEPT !.phase = main_outcome(storage_file)]
    /\ UNCHANGED <<storeVars, fsVars, runVars, threads, limiter, resolved, links_found>>

\* Where the process may stop inside save_to_json (lines 142-144).
StopPoints == {"before_open", "after_open", "in_dump", "after_close"}

\* The file a stop leaves: open(path, 'w') has emptied it, json.dump has
\* written a part of the text, or the with block has closed it.
FileAfterStop(point, file, c, d, s, shape) ==
    CASE point = "before_open" -> file
      [] point \in {"after_open", "in_dump"} -> UndecodableFile
      [] point = "after_close" -> Snapshot(c, d, s, shape)

\* The process is killed (or the machine goes down) during save_to_json.
StopInSave(point) ==
    /\ process.phase = "serving"
    /\ storage_file' = FileAfterStop(point, storage_file, companies_info,
                           document_metadata_store, summary_metadata_store,
                           family_shape)
    /\ process' = [phase |-> "stopped", interrupted |-> TRUE,
                   before |-> storage_file,
                   saving |-> Snapshot(companies_info, document_metadata_store,
                                       summary_metadata_store, family_shape)]
    /\ UNCHANGED <<companies_info, document_metadata_store, summary_metadata_store,
                   family_shape, loaded_from, last_op>>
    /\ UNCHANGED <<fsVars, runVars, threads, limiter, resolved, links_found>>

\* The process is started again: the import constructs the store from the file.
Start ==
    /\ process.phase \in {"stopped", "crashed"}
    /\ LoadFromJson
    /\ process' = [process EXCEPT !.phase = "imported"]
    /\ UNCHANGED <<fsVars, runVars, threads, limiter, resolved, links_found>>

IsServing == process.phase = "serving"

LifeMetas == {OneDoc, Meta(UrlNoExt, Sha2, "b.pdf", None, None, 1, "data/raw/WMT/ir/10-K/b.pdf")}

InitLife ==
    /\ \E file \in InitialFiles : ConstructedFrom(file)
    /\ PipelineIdle
    /\ process = Imported

NextLife ==
    \/ Main
    \/ \E t \in {"WMT", "AMZN"}, m \in LifeMetas : IsServing /\ AddDocument(t, "ir", m)
    \/ \E p \in SummaryPaths, sm \in Summaries : IsServing /\ AddSummary(p, sm)
    \/ \E o \in SaveOutcomes : IsServing /\ SaveToJson(o)
    \/ \E point \in StopPoints : StopInSave(point)
    \/ Start

SpecLife == InitLife /\ [][NextLife]_vars

\* The store in memory, as the snapshot save_to_json would write of it.
CurrentStore ==
    Snapshot(companies_info, document_metadata_store, summary_metadata_store,
             family_shape)

\* C11: whatever the snapshot file holds (nothing, undecodable text, a valid
\* snapshot of an earlier process), main() reaches the start of the API
\* server and of the scheduler: the start of the process never ends in an
\* exception.
C11_StartIsNeverFatal == process.phase # "crashed"

\* The part of C11 that holds: with no snapshot file main() reaches app.run
\* over an empty store.
StartWithoutSnapshot ==
    (process.phase = "serving" /\ last_op.op = "construct") => StoreIsEmpty

\* C12: after a stop during save, the store the next process loads is the
\* complete store of the last save before it or the complete store that was
\* being saved, never an empty or partial one.
C12_SaveIsAtomic ==
    (process.phase = "imported" /\ process.interrupted) =>
        CurrentStore \in {Snapshot(Loaded(process.before).companies_info,
                                   Loaded(process.before).document_metadata_store,
                                   Loaded(process.before).summary_metadata_store,
                                   Loaded(process.before).shape),
                          process.saving}

\* The three attributes of the store in memory.
StoreNow ==
    [companies_info |-> companies_info,
     document_metadata_store |-> document_metadata_store,
     summary_metadata_store |-> summary_metadata_store,
     shape |-> family_shape]

\* The attributes of a store constructed over the file.
RestoredFrom(file) ==
    [companies_info |-> Loaded(file).companies_info,
     document_metadata_store |-> Loaded(file).document_metadata_store,
     summary_metadata_store |-> Loaded(file).summary_metadata_store,
     shape |-> Loaded(file).shape]

\* C13: whenever save_to_json has written the snapshot file, a store
\* constructed from that file holds the same companies, the same document
\* entries in the same order under every (ticker, category) and the same
\* summaries as the store that was saved.
C13_SaveLoadRoundTrip ==
    [][(storage_file' # storage_file /\ storage_file'.kind = "object")
          => RestoredFrom(storage_file') = StoreNow']_vars

\* A store with documents and a summary was saved and constructed again.
C13_RestoredStoreWithEntries ==
    /\ last_op.op = "construct" /\ loaded_from = "valid"
    /\ TotalDocs(document_metadata_store) = MaxDocs
    /\ DOMAIN summary_metadata_store # {}
    /\ RestoredFrom(storage_file) = StoreNow

(***************************************************************************)
(* Threads. The API server (app.run, main.py line 46) serves each request  *)
(* in a thread of its own and the scheduler (BackgroundScheduler,          *)
(* tasks.py line 142) runs its jobs in another; all of them use the one    *)
(* data_store and the one data/raw tree, and no method takes a lock. A     *)
(* thread can be suspended between any two statements.                     *)
(***************************************************************************)
MaxThreads == 2     \* threads that run at the same time
MaxCalls == 2       \* calls each thread makes in one behaviour

IdleThread ==
    [pc |-> "idle", op |-> None, ticker |-> None, source_type |-> None,
     meta |-> NoMeta, doc_info |-> Link(None, None, None), flag |-> FALSE,
     status |-> None, requests |-> 0, wake |-> 0, calls |-> 0]

ThreadIds == 1..MaxThreads

\* A thread calls data_store.add_document_metadata(ticker, source_type, m).
CallAddDocument(i, t, st, m) ==
    /\ threads[i].pc = "idle" /\ threads[i].calls < MaxCalls
    /\ threads' = [threads EXCEPT ![i] =
           [IdleThread EXCEPT !.pc = "line38", !.op = "add_document",
                              !.ticker = upper(t), !.source_type = st, !.meta = m,
                              !.calls = threads[i].calls + 1]]
    /\ UNCHANGED <<storeVars, fsVars, runVars, process, limiter, resolved, links_found>>

\* line 38: the test `ticker_upper not in self.document_metadata_store`.
AddDocumentTest(i) ==
    /\ threads[i].pc = "line38"
    /\ threads' = [threads EXCEPT ![i].pc = "line39",
                                  ![i].flag = threads[i].ticker
                                                  \notin DOMAIN document_metadata_store]
    /\ UNCHANGED <<storeVars, fsVars, runVars, process, limiter, resolved, links_found>>

\* line 39: the assignment of the two empty lists, when the test found no
\* ticker; lines 41-43: the return for an invalid source_type.
AddDocumentCreate(i) ==
    /\ threads[i].pc = "line39"
    /\ document_metadata_store' =
           IF threads[i].flag
           THEN [k \in DOMAIN document_metadata_store \cup {threads[i].ticker} |->
                    IF k = threads[i].ticker THEN [ir |-> <<>>, sec |-> <<>>]
                    ELSE document_metadata_store[k]]
           ELSE document_metadata_store
    /\ threads' = [threads EXCEPT ![i].pc =
                      IF threads[i].source_type \in {"ir", "sec"} THEN "line46" ELSE "idle"]
    /\ UNCHANGED <<companies_info, summary_metadata_store, family_shape,
                   storage_file, loaded_from, last_op>>
    /\ UNCHANGED <<fsVars, runVars, process, limiter, resolved, links_found>>

\* lines 46-57: the scan of the existing entries for the key of the new one.
AddDocumentScan(i) ==
    /\ threads[i].pc = "line46"
    /\ threads' = [threads EXCEPT ![i].pc = "line59",
                      ![i].flag = IsDuplicate(
                          document_metadata_store[threads[i].ticker][threads[i].source_type],
                          threads[i].meta)]
    /\ UNCHANGED <<storeVars, fsVars, runVars, process, limiter, resolved, links_found>>

\* lines 59-63: the append, unless the scan found a duplicate.
AddDocumentAppend(i) ==
    /\ threads[i].pc = "line59"
    /\ document_metadata_store' =
           IF threads[i].flag THEN document_metadata_store
           ELSE [document_metadata_store EXCEPT
                    ![threads[i].ticker][threads[i].source_type] =
                        Append(@, threads[i].meta)]
    /\ threads' = [threads EXCEPT ![i].pc = "idle"]
    /\ UNCHANGED <<companies_info, summary_metadata_store, family_shape,
                   storage_file, loaded_from, last_op>>
    /\ UNCHANGED <<fsVars, runVars, process, limiter, resolved, links_found>>

\* A thread calls ir_scraper.download_document(ticker, doc_info).
CallDownload(i, t, doc_info) ==
    /\ threads[i].pc = "idle" /\ threads[i].calls < MaxCalls
    /\ threads' = [threads EXCEPT ![i] =
           [IdleThread EXCEPT !.pc = "line202", !.op = "download",
                              !.ticker = upper(t), !.doc_info = doc_info,
                              !.calls = threads[i].calls + 1]]
    /\ UNCHANGED <<storeVars, fsVars, runVars, process, limiter, resolved, links_found>>

\* ir_scraper.py lines 182-214: the directory, the file name, and the test
\* for a file that is already there.
DownloadTestExists(i, env) ==
    /\ threads[i].pc = "line202"
    /\ LET url == threads[i].doc_info.url
           filepath == ir_company_dir(threads[i].ticker, threads[i].doc_info.type)
                           \o "/" \o ir_filename(url, today, file_extension(url))
       IN  IF filepath \in DOMAIN artifacts /\ filepath \in DOMAIN sidecars
           THEN LET f == SkipExisting(filepath, env, artifacts, sidecars)
                IN  threads' = [threads EXCEPT ![i].pc = "idle",
                                   ![i].status = IF f.raised THEN "raised"
                                                 ELSE f.result.status]
           ELSE threads' = [threads EXCEPT ![i].pc = "line217"]
    /\ UNCHANGED <<storeVars, fsVars, runVars, process, limiter, resolved, links_found>>

\* ir_scraper.py lines 217-274: the request, the artifact and its sidecar.
DownloadFetch(i, env) ==
    /\ threads[i].pc = "line217"
    /\ LET url == threads[i].doc_info.url
           company_dir == ir_company_dir(threads[i].ticker, threads[i].doc_info.type)
           filename == ir_filename(url, today, new_ext(file_extension(url), env.ctype))
           filepath == company_dir \o "/" \o filename
           meta == Meta(url, sha256(env.content), filename, None, None, today, filepath)
           f == Download(url, filepath, meta, env, artifacts, sidecars)
       IN  /\ artifacts' = f.artifacts
           /\ sidecars' = f.sidecars
           /\ threads' = [threads EXCEPT ![i].pc = "idle",
                                         ![i].status = f.result.status,
                                         ![i].requests = f.requests]
    /\ UNCHANGED <<storeVars, today, runVars, process, limiter, resolved, links_found>>

ThreadMetas == {OneDoc, Meta(UrlPdf, Sha1, "a.pdf", None, None, 2, "data/raw/WMT/ir/10-K/a.pdf")}

PipelineIdleFiles ==
    /\ artifacts = EmptyDict /\ sidecars = EmptyDict /\ today = 1
    /\ run = NoRun /\ stage_log = <<>> /\ raised_stages = {} /\ save_calls = 0
    /\ add_calls = <<>> /\ last_fetch = NoFetch

InitThreads ==
    /\ ConstructedFrom(MissingFile)
    /\ PipelineIdleFiles
    /\ process = Serving
    /\ threads = [i \in ThreadIds |-> IdleThread]
    /\ limiter = NoRequests
    /\ resolved = NotResolved
    /\ links_found = NoLinks

NextThreads ==
    \/ \E i \in ThreadIds, t \in {"WMT", "AMZN"}, m \in ThreadMetas :
           CallAddDocument(i, t, "ir", m)
    \/ \E i \in ThreadIds : AddDocumentTest(i)
    \/ \E i \in ThreadIds : AddDocumentCreate(i)
    \/ \E i \in ThreadIds : AddDocumentScan(i)
    \/ \E i \in ThreadIds : AddDocumentAppend(i)
    \/ \E i \in ThreadIds : CallDownload(i, "WMT", LinkPdf)
    \/ \E i \in ThreadIds, env \in CleanEnvs : DownloadTestExists(i, env)
    \/ \E i \in ThreadIds, env \in CleanEnvs : DownloadFetch(i, env)

SpecThreads == InitThreads /\ [][NextThreads]_vars

\* C14: with add_document_metadata called from several threads at once, no
\* two entries under one (ticker, category) carry the same dedup key: the
\* concurrent calls behave as if they ran one after the other.
C14_ConcurrentAddsKeepDedup ==
    \A t \in DOMAIN document_metadata_store, c \in {"ir", "sec"} :
        LET docs == document_metadata_store[t][c]
        IN  \A i, j \in 1..Len(docs) :
                (i # j /\ Truthy(DedupKey(docs[i]))) => DedupKey(docs[i]) # DedupKey(docs[j])

\* C15: of the threads that have fetched one reference for one ticker on
\* one day, at most one has sent the download request; the others found the
\* document already present.
C15_SingleFlight ==
    \A i, j \in ThreadIds :
        (/\ i # j
         /\ threads[i].calls = 1 /\ threads[j].calls = 1
         /\ threads[i].pc = "idle" /\ threads[j].pc = "idle"
         /\ threads[i].op = "download" /\ threads[j].op = "download"
         /\ threads[i].ticker = threads[j].ticker
         /\ threads[i].doc_info = threads[j].doc_info)
            => threads[i].requests + threads[j].requests <= 1

(***************************************************************************)
(* Requests to the regulator's hosts. Time is counted in ticks of 0.05 s.  *)
(* limiter.now is the clock and limiter.sent the requests in the order     *)
(* they were started, each with its start time.                            *)
(***************************************************************************)
SEC_API_RATE_LIMIT == 2     \* 0.1 s (config.py line 28), in ticks
MaxTime == 4                \* ticks the clock advances in one behaviour

MadeRequests == {"get_company_submissions", "get_filing_index"}

Tick ==
    /\ limiter.now < MaxTime
    /\ limiter' = [limiter EXCEPT !.now = limiter.now + 1]
    /\ UNCHANGED <<storeVars, fsVars, runVars, process, threads, resolved, links_found>>

\* SECFetcher._make_request, line 30: time.sleep(SEC_API_RATE_LIMIT) begins.
\* The sleep is the caller's own; it consults nothing the callers share.
MakeRequestSleep(i, op) ==
    /\ threads[i].pc = "idle" /\ threads[i].calls < MaxCalls
    /\ threads' = [threads EXCEPT ![i] =
           [IdleThread EXCEPT !.pc = "line31", !.op = op,
                              !.wake = limiter.now + SEC_API_RATE_LIMIT,
                              !.calls = threads[i].calls + 1]]
    /\ UNCHANGED <<storeVars, fsVars, runVars, process, limiter, resolved, links_found>>

\* SECFetcher._make_request, lines 31-54: requests.get starts once the sleep
\* is over, and the response or an error dictionary is returned.
MakeRequestGet(i) ==
    /\ threads[i].pc = "line31"
    /\ limiter.now >= threads[i].wake
    /\ limiter' = [limiter EXCEPT !.sent =
           Append(@, [op |-> threads[i].op, by |-> i, at |-> limiter.now])]
    /\ threads' = [threads EXCEPT ![i].pc = "idle", ![i].requests = 1]
    /\ UNCHANGED <<storeVars, fsVars, runVars, process, resolved, links_found>>

\* companies.fetch_sec_cik_mapping, line 76: requests.get to www.sec.gov,
\* with no sleep before it.
FetchSecCikMapping(i) ==
    /\ threads[i].pc = "idle" /\ threads[i].calls < MaxCalls
    /\ limiter' = [limiter EXCEPT !.sent =
           Append(@, [op |-> "fetch_sec_cik_mapping", by |-> i, at |-> limiter.now])]
    /\ threads' = [threads EXCEPT ![i] =
           [IdleThread EXCEPT !.op = "fetch_sec_cik_mapping", !.requests = 1,
                              !.calls = threads[i].calls + 1]]
    /\ UNCHANGED <<storeVars, fsVars, runVars, process, resolved, links_found>>

NextRate ==
    \/ Tick
    \/ \E i \in ThreadIds, op \in MadeRequests : MakeRequestSleep(i, op)
    \/ \E i \in ThreadIds : MakeRequestGet(i)
    \/ \E i \in ThreadIds : FetchSecCikMapping(i)

SpecRate == InitThreads /\ [][NextRate]_vars

\* C16: any two requests to the regulator's hosts, by one caller or by two,
\* start at least SEC_API_RATE_LIMIT apart.
C16_RequestsSpacedApart ==
    \A i, j \in 1..Len(limiter.sent) :
        i < j => limiter.sent[j].at - limiter.sent[i].at >= SEC_API_RATE_LIMIT

(***************************************************************************)
(* SECFetcher.get_company_submissions and get_recent_filings_metadata.     *)
(* filings.recent holds parallel arrays; a key of it may be absent. The    *)
(* positions of an array are counted from 1 here, from 0 in the code.      *)
(***************************************************************************)
MaxFilings == 2     \* longest array of a submissions payload

Absent == [present |-> FALSE, items |-> <<>>]
Array(items) == [present |-> TRUE, items |-> items]
Column(name, n) == Array([i \in 1..n |-> name \o ToString(i)])

Recent(acc, form, filingDate, reportDate, primaryDocument, description, size) ==
    [accessionNumber |-> acc, form |-> form, filingDate |-> filingDate,
     reportDate |-> reportDate, primaryDocument |-> primaryDocument,
     primaryDocDescription |-> description, size |-> size]

NoRecent == Recent(Absent, Absent, Absent, Absent, Absent, Absent, Absent)

\* What _make_request returned: an error dictionary, a JSON object without
\* filings.recent, or one with it.
Submissions(kind, recent) == [kind |-> kind, recent |-> recent]

\* recent[key][i]
Subscript(array, i) ==
    IF ~array.present THEN "KeyError"
    ELSE IF i > Len(array.items) THEN "IndexError"
    ELSE "ok"

\* recent.get(key, [default])[i]
GetSubscript(array, i) ==
    IF array.present THEN Subscript(array, i)
    ELSE IF i > 1 THEN "IndexError" ELSE "ok"

GetItem(array, default, i) == IF array.present THEN array.items[i] ELSE default

\* lines 195-202: the subscripts of the dictionary display, in the order
\* Python evaluates them.
filing_info_subscripts(recent, i) ==
    << Subscript(recent.accessionNumber, i),
       Subscript(recent.filingDate, i),
       GetSubscript(recent.reportDate, i),
       Subscript(recent.primaryDocument, i),
       GetSubscript(recent.primaryDocDescription, i),
       GetSubscript(recent.size, i) >>

FirstException(outcomes) ==
    IF \A k \in 1..Len(outcomes) : outcomes[k] = "ok" THEN "ok"
    ELSE outcomes[CHOOSE k \in 1..Len(outcomes) :
                      /\ outcomes[k] # "ok"
                      /\ \A l \in 1..(k - 1) : outcomes[l] = "ok"]

filing_info(recent, i) ==
    [accessionNumber |-> recent.accessionNumber.items[i],
     filingDate |-> recent.filingDate.items[i],
     reportDate |-> GetItem(recent.reportDate, "", i),
     form |-> recent.form.items[i],
     primaryDocument |-> recent.primaryDocument.items[i],
     primaryDocDescription |-> GetItem(recent.primaryDocDescription, "", i),
     size |-> GetItem(recent.size, None, i)]

Returned(list) == [raised |-> None, result |-> list]
Propagated(exception) == [raised |-> exception, result |-> <<>>]

\* lines 190-209: the loop over range(num_filings), from position i with the
\* list collected so far.
RECURSIVE recent_filings_loop(_, _, _, _, _)
recent_filings_loop(recent, form_types, count, i, list) ==
    LET num_filings == IF recent.accessionNumber.present
                       THEN Len(recent.accessionNumber.items) ELSE 0
    IN  IF i > num_filings THEN Returned(list)
        ELSE IF Subscript(recent.form, i) = "KeyError" THEN Propagated("KeyError")
        ELSE IF Subscript(recent.form, i) = "IndexError" THEN Returned(list)
        ELSE IF recent.form.items[i] \notin form_types
        THEN recent_filings_loop(recent, form_types, count, i + 1, list)
        ELSE LET exception == FirstException(filing_info_subscripts(recent, i))
                 appended == Append(list, filing_info(recent, i))
             IN  IF exception = "KeyError" THEN Propagated("KeyError")
                 ELSE IF exception = "IndexError" THEN Returned(list)
                 ELSE IF Len(appended) >= count THEN Returned(appended)
                 ELSE recent_filings_loop(recent, form_types, count, i + 1, appended)

\* get_company_submissions, lines 57-67: the error dictionary without a
\* request when the CIK is falsy, else the answer to one request.
get_company_submissions(df, ticker, answer) ==
    IF ~Truthy(company_cik(df, ticker))
    THEN [submissions |-> Submissions("error", NoRecent), requests |-> 0, url |-> None]
    ELSE [submissions |-> answer, requests |-> 1,
          url |-> "https://data.sec.gov/submissions/CIK"
                      \o company_cik(df, ticker) \o ".json"]

get_recent_filings_metadata(df, ticker, answer, form_types, count) ==
    LET got == get_company_submissions(df, ticker, answer)
        out == IF got.submissions.kind # "recent" THEN Returned(<<>>)
               ELSE recent_filings_loop(got.submissions.recent, form_types, count, 1, <<>>)
    IN  [raised |-> out.raised, result |-> out.result,
         requests |-> got.requests, url |-> got.url]

\* The payloads of the model. The required arrays other than form are
\* absent, or as long as accessionNumber, or one shorter; so are the
\* optional ones.
FormNames == {"10-K", "8-K"}

FormArrays ==
    {Absent} \cup {Array(f) : f \in UNION {[1..n -> FormNames] : n \in 0..MaxFilings}}

Lengths(n) == {n} \cup (IF n > 0 THEN {n - 1} ELSE {})

Columns(name, n) == {Absent} \cup {Column(name, k) : k \in Lengths(n)}

Recents ==
    {Recent(Column("acc", n), form, filingDate, optional, primaryDocument, optional, optional) :
        n \in {MaxFilings}, form \in FormArrays,
        filingDate \in Columns("filed", MaxFilings),
        primaryDocument \in Columns("doc", MaxFilings),
        optional \in {Absent}}
    \cup
    UNION {{Recent(Column("acc", n), form, Column("filed", n), reportDate,
                   Column("doc", n), Column("description", n), size) :
               form \in FormArrays,
               reportDate \in Columns("report", n), size \in Columns("size", n)} :
           n \in 0..MaxFilings}
    \cup
    {Recent(Absent, form, Absent, Absent, Absent, Absent, Absent) : form \in FormArrays}

Answers ==
    {Submissions("error", NoRecent), Submissions("no_recent", NoRecent)}
        \cup {Submissions("recent", r) : r \in Recents}

FormTypeSets == {{"10-K"}, {"10-K", "8-K"}}
Counts == 0..MaxFilings

\* The universe of the resolver: the sample rows and a company whose cik
\* cell is empty.
NoCikRow == [ticker |-> "ZZZ", cik |-> EmptyCell]
Universes == {get_fortune_100, Append(get_fortune_100, NoCikRow)}
ResolverTickers == {"WMT", "ZZZ"}

Resolve(df, ticker, answer, form_types, count) ==
    [called |-> FALSE, df |-> df, ticker |-> ticker, answer |-> answer,
     form_types |-> form_types, count |-> count,
     raised |-> None, result |-> <<>>, requests |-> 0, url |-> None]

InitResolver ==
    /\ ConstructedFrom(MissingFile)
    /\ PipelineIdleFiles
    /\ process = Serving
    /\ threads = NoThreads
    /\ limiter = NoRequests
    /\ links_found = NoLinks
    /\ \E df \in Universes, ticker \in ResolverTickers, answer \in Answers,
          form_types \in FormTypeSets, count \in Counts :
           resolved = Resolve(df, ticker, answer, form_types, count)

GetRecentFilingsMetadata ==
    /\ ~resolved.called
    /\ LET out == get_recent_filings_metadata(resolved.df, resolved.ticker, resolved.answer,
                                              resolved.form_types, resolved.count)
       IN  resolved' = [resolved EXCEPT !.called = TRUE, !.raised = out.raised,
                                        !.result = out.result,
                                        !.requests = out.requests, !.url = out.url]
    /\ UNCHANGED <<storeVars, fsVars, runVars, process, threads, limiter, links_found>>

NextResolver == GetRecentFilingsMetadata

SpecResolver == InitResolver /\ [][NextResolver]_vars

\* The positions 1..k of the payload whose form is asked for, in order.
Ascending(S) ==
    [j \in 1..Cardinality(S) |-> CHOOSE i \in S : Cardinality({x \in S : x < i}) = j - 1]

MatchingPositions(recent, form_types, k) ==
    Ascending({i \in 1..k : recent.form.items[i] \in form_types})

Take(seq, n) == SubSeq(seq, 1, IF n < Len(seq) THEN n ELSE Len(seq))

AccessionNumbers(positions) ==
    [j \in 1..Len(positions) |-> "acc" \o ToString(positions[j])]

ResultAccessionNumbers ==
    [j \in 1..Len(resolved.result) |-> resolved.result[j].accessionNumber]

LengthOf(array) == IF array.present THEN Len(array.items) ELSE 0

ShortestOf(arrays) ==
    CHOOSE k \in 0..MaxFilings :
        /\ \A j \in 1..Len(arrays) : k <= LengthOf(arrays[j])
        /\ \E j \in 1..Len(arrays) : k = LengthOf(arrays[j])

AllArrays(recent) ==
    <<recent.accessionNumber, recent.form, recent.filingDate, recent.reportDate,
      recent.primaryDocument, recent.primaryDocDescription, recent.size>>

OptionalArrays(recent) ==
    <<recent.reportDate, recent.primaryDocDescription, recent.size>>

ResolvedPayload ==
    /\ resolved.called
    /\ resolved.requests = 1
    /\ resolved.answer.kind = "recent"

\* C17: whatever arrays of the payload are short or missing, the resolver
\* does not raise; with the optional arrays in the payload and a positive
\* count, it returns the matching filings of the positions before the first
\* one that some array lacks.
C17_ResolverTruncates ==
    ResolvedPayload =>
        /\ resolved.raised = None
        /\ LET recent == resolved.answer.recent
               optionals == OptionalArrays(recent)
           IN  (/\ resolved.count >= 1
                /\ \A j \in 1..Len(optionals) : optionals[j].present)
                   => ResultAccessionNumbers =
                          AccessionNumbers(Take(
                              MatchingPositions(recent, resolved.form_types,
                                                ShortestOf(AllArrays(recent))),
                              resolved.count))

\* The arrays the payload has are all as long as accessionNumber, and only
\* optional ones are missing.
Consistent(recent) ==
    /\ recent.accessionNumber.present
    /\ \A a \in {recent.form, recent.filingDate, recent.primaryDocument} :
           a.present /\ Len(a.items) = Len(recent.accessionNumber.items)
    /\ \A a \in {recent.reportDate, recent.primaryDocDescription, recent.size} :
           a.present => Len(a.items) = Len(recent.accessionNumber.items)

\* C18: on a consistent payload the resolver returns the first count
\* filings whose form is in form_types, in the payload's order, for every
\* count from 0 up, whether or not the optional arrays are in the payload.
C18_FirstCountMatching ==
    (ResolvedPayload /\ Consistent(resolved.answer.recent)) =>
        /\ resolved.raised = None
        /\ ResultAccessionNumbers =
               AccessionNumbers(Take(
                   MatchingPositions(resolved.answer.recent, resolved.form_types,
                                     Len(resolved.answer.recent.accessionNumber.items)),
                   resolved.count))

\* The ticker is in no row of the universe, or only in rows without a cik.
HasNoIdentifier(df, ticker) ==
    \A i \in 1..Len(df) : upper(df[i].ticker) = upper(ticker) => df[i].cik = EmptyCell

\* C19: for a ticker with no identifier on record, whether or not it is in
\* the universe, the lookup gives None, no request is sent and the list of
\* filings is empty.
C19_NoIdentifierNoRequest ==
    (resolved.called /\ HasNoIdentifier(resolved.df, resolved.ticker)) =>
        /\ company_cik(resolved.df, resolved.ticker) = None
        /\ resolved.requests = 0
        /\ resolved.result = <<>>

\* C20: the fetch of a discovered reference ends in exactly one of Stored,
\* AlreadyPresent and Failed, and has sent at most one download request.
C20_ReferenceReachesOneOutcome ==
    last_fetch # NoFetch =>
        /\ ~last_fetch.raised
        /\ last_fetch.status \in Stored \cup AlreadyPresent \cup Failed
        /\ last_fetch.requests <= 1

(***************************************************************************)
(* A server that never answers. download_document passes timeout=60 to     *)
(* requests.get (ir_scraper.py line 219), so its request ends in           *)
(* requests.Timeout, the "connection_error" of FailingEnvs. The requests   *)
(* of SECFetcher (sec_fetcher.py lines 31 and 139) pass no timeout:        *)
(* requests.get does not return, and the thread stays in the call.         *)
(***************************************************************************)
\* _make_request line 31, called by get_company_submissions for the stage's
\* ticker: no answer, no timeout.
BlockedInMakeRequest ==
    /\ run.pc = "sec"
    /\ Truthy(get_company_cik(run.ticker))
    /\ run' = [run EXCEPT !.pc = "sec_blocked"]
    /\ UNCHANGED <<storeVars, fsVars, stage_log, raised_stages, save_calls,
                   add_calls, last_fetch, restVars>>

\* download_filing_document line 139, for a filing that is not on disk yet:
\* no answer, no timeout.
BlockedInDownloadFiling ==
    /\ run.pc = "sec_fetch" /\ run.pending # <<>>
    /\ LET filing == Head(run.pending)
       IN  download_filing_document(run.ticker, filing.accessionNumber,
               filing.primaryDocument, filing.form,
               Env("ok", "c1", "text/html", "none"), today,
               artifacts, sidecars).requests = 1
    /\ run' = [run EXCEPT !.pc = "sec_blocked"]
    /\ UNCHANGED <<storeVars, fsVars, stage_log, raised_stages, save_calls,
                   add_calls, last_fetch, restVars>>

NextHang ==
    \/ NextJob
    \/ BlockedInMakeRequest
    \/ BlockedInDownloadFiling

\* The job's thread keeps running: whatever step it can take, it takes.
SpecHang == InitStore /\ [][NextHang]_vars /\ WF_vars(NextHang)

\* C21: a pass that has started reaches its final save, whatever the
\* servers do.
C21_PassReachesFinalSave ==
    (run.kind = "job" /\ run.pc = "ir") ~> (run.pc = "done")

\* The status with which a download in env ends (ir_scraper.py 269-274,
\* sec_fetcher.py 167-172).
ReasonIn(env) ==
    Download(UrlPdf, "data/raw/WMT/ir/10-K/a.pdf", NoMeta, env, EmptyDict, EmptyDict).result.status

\* C22: the reason of a Failed outcome tells its cause: no environment with
\* another cause (transport, HTTP status, filesystem) ends in the same reason.
C22_ReasonTellsCause ==
    (~last_fetch.raised /\ last_fetch.status \in Failed) =>
        \A env \in FailingEnvs :
            ReasonIn(env) = last_fetch.status => Cause(env) = last_fetch.cause

\* The counts that the body of an answer states.
CountsIn(answer) ==
    IF "message" \in answer.keys /\ "results_summary" \in answer.keys
    THEN {"succeeded", "total"} ELSE {}

\* C23: a collection route that has answered has saved the store first, and
\* its answer holds the per-item outcomes and the counts of succeeded,
\* skipped and failed items.
C23_RouteAnswersWithOutcomes ==
    (run.kind \in {"route_ir", "route_sec"} /\ run.pc = "done") =>
        /\ save_calls = 1
        /\ "details" \in run.answer.keys
        /\ {"succeeded", "skipped", "failed"} \subseteq CountsIn(run.answer)

(***************************************************************************)
(* DataStore.get_document_metadata (data_store.py lines 64-93). What it    *)
(* returns: one dictionary ("doc"), None ("none"), a list, or the ticker's *)
(* dictionary of both lists ("dict", the ir list before the sec list).     *)
(***************************************************************************)
Got(kind, docs) == [kind |-> kind, docs |-> docs]

\* lines 79 and 87: document_identifier in (doc_meta.get("filename"),
\* doc_meta.get("content_hash_sha256"), doc_meta.get("url"))
Identifies(identifier, doc_meta) ==
    identifier \in {doc_meta.filename, doc_meta.content_hash_sha256, doc_meta.url}

\* The first dictionary of the list that the identifier matches, else None.
FirstIdentified(docs_list, identifier) ==
    LET hits == {i \in 1..Len(docs_list) : Identifies(identifier, docs_list[i])}
    IN  IF hits = {} THEN Got("none", <<>>)
        ELSE Got("doc", <<docs_list[CHOOSE i \in hits : \A j \in hits : i <= j]>>)

get_document_metadata(d, ticker, source_type, document_identifier) ==
    LET ticker_upper == upper(ticker)
    IN  IF ticker_upper \notin DOMAIN d
        THEN (IF Truthy(source_type) THEN Got("list", <<>>) ELSE Got("dict", <<>>))
        ELSE IF Truthy(source_type)
        THEN (IF source_type \notin {"ir", "sec"} THEN Got("list", <<>>)
              ELSE IF Truthy(document_identifier)
              THEN FirstIdentified(d[ticker_upper][source_type], document_identifier)
              ELSE Got("list", d[ticker_upper][source_type]))
        ELSE IF Truthy(document_identifier)
        THEN FirstIdentified(d[ticker_upper]["ir"] \o d[ticker_upper]["sec"],
                             document_identifier)
        ELSE Got("dict", d[ticker_upper]["ir"] \o d[ticker_upper]["sec"])

\* The identifiers a caller may ask for: the file names, fingerprints and
\* URLs of the stored documents, and one that no document has.
FileNameOf(doc_meta) ==
    IF doc_meta.filename # None THEN doc_meta.filename ELSE doc_meta.document_filename

StoredDocs ==
    UNION {{document_metadata_store[t][c][i] : i \in 1..Len(document_metadata_store[t][c])} :
              t \in DOMAIN document_metadata_store, c \in {"ir", "sec"}}

Identifiers ==
    ({"no-such-document"}
        \cup {FileNameOf(m) : m \in StoredDocs}
        \cup {m.content_hash_sha256 : m \in StoredDocs}
        \cup {m.url : m \in StoredDocs}) \ {None}

\* The entry the lookup is to give: the first one, ir before sec, whose file
\* name, fingerprint or URL is the identifier.
Wanted(d, ticker, source_type, identifier) ==
    LET lists == IF upper(ticker) \notin DOMAIN d THEN <<>>
                 ELSE IF source_type = None
                 THEN d[upper(ticker)]["ir"] \o d[upper(ticker)]["sec"]
                 ELSE d[upper(ticker)][source_type]
        hits == {i \in 1..Len(lists) :
                    identifier \in {FileNameOf(lists[i]), lists[i].content_hash_sha256,
                                    lists[i].url}}
    IN  IF hits = {} THEN <<>>
        ELSE <<lists[CHOOSE i \in hits : \A j \in hits : i <= j]>>

\* C24: for every stored document of either category, every identifier and
\* either spelling of the ticker, the lookup with an identifier returns the
\* first entry whose file name, fingerprint or URL is the identifier, and
\* nothing when there is none.
C24_LookupFindsFirstMatch ==
    \A t \in {"WMT", "wmt", "AMZN", "amzn"}, st \in {None, "ir", "sec"},
       identifier \in Identifiers :
        get_document_metadata(document_metadata_store, t, st, identifier).docs
            = Wanted(document_metadata_store, t, st, identifier)

(***************************************************************************)
(* Summaries: POST /summarize/document (routes.py lines 136-170) and       *)
(* DataStore.get_all_summaries_metadata (data_store.py lines 111-130).     *)
(***************************************************************************)
\* The documents under data/raw that the route is asked to summarize, each
\* as the parts of its path relative to data/raw.
SummarizedParts ==
    {<<t, "ir", "10-K", f>> : t \in UniverseTickers, f \in {"a.pdf", "b.pdf"}}
        \cup {<<t, "sec", "10-K", "000000000126000001", "annual-10k.htm">> :
                 t \in UniverseTickers}

RECURSIVE join(_)
join(parts) ==
    IF Len(parts) = 1 THEN parts[1] ELSE parts[1] \o "/" \o join(Tail(parts))

\* os.path.normpath(key).split(os.sep)
path_parts(key) ==
    IF \E parts \in SummarizedParts : join(parts) = key
    THEN CHOOSE parts \in SummarizedParts : join(parts) = key
    ELSE <<key>>

\* The "ticker" of the sidecar that summarize_document reads into
\* original_file_metadata (summarizer.py 209-217): download_filing_document
\* writes one (sec_fetcher.py 151), download_document writes none
\* (ir_scraper.py 247-257), and the sidecar may be missing or unreadable.
SidecarTickers(parts) == IF parts[2] = "sec" THEN {parts[1], None} ELSE {None}

\* summary_result["details"], of which the store's reader uses
\* original_file_metadata.ticker.
Details(ticker) == [summary |-> "s1", original_file_metadata_ticker |-> ticker]

\* summarize_document_route, when the document exists and the summarizer
\* succeeds: the summary is stored under relative_file_path and the store
\* is saved.
SummarizeDocument(parts, ticker) ==
    /\ summary_metadata_store' =
           add_summary_metadata(summary_metadata_store, join(parts), Details(ticker))
    /\ storage_file' = Snapshot(companies_info, document_metadata_store,
                                summary_metadata_store', family_shape)
    /\ last_op' = Op("save", FALSE)
    /\ UNCHANGED <<companies_info, document_metadata_store, family_shape, loaded_from>>
    /\ UNCHANGED <<fsVars, runVars, restVars>>

\* value.get("original_file_metadata", {}).get("ticker", "")
embedded_ticker(value) ==
    IF value.original_file_metadata_ticker = None THEN ""
    ELSE value.original_file_metadata_ticker

\* lines 116-130: the summaries of a ticker.
get_all_summaries_metadata(summaries, ticker) ==
    IF ~Truthy(ticker) THEN summaries
    ELSE LET ticker_upper == upper(ticker)
             kept == {key \in DOMAIN summaries :
                         \/ /\ Len(path_parts(normpath(key))) > 2
                            /\ upper(path_parts(normpath(key))[3]) = ticker_upper
                         \/ upper(embedded_ticker(summaries[key])) = ticker_upper}
         IN  [key \in kept |-> summaries[key]]

NextSummaries ==
    \/ \E parts \in SummarizedParts :
           \E ticker \in SidecarTickers(parts) : SummarizeDocument(parts, ticker)
    \/ \E t \in StoreTickers : GetSummaries(t)

SpecSummaries == InitStore /\ [][NextSummaries]_vars

\* C25: for every ticker, in either spelling, the summaries returned are
\* those stored under a path <TICKER>/<ir|sec>/... of that ticker.
C25_SummariesOfTicker ==
    \A t \in StoreTickers :
        DOMAIN get_all_summaries_metadata(summary_metadata_store, t)
            = {key \in DOMAIN summary_metadata_store :
                   upper(path_parts(key)[1]) = upper(t)}

(***************************************************************************)
(* IRScraper.grab_ir_links, lines 102-163: the anchors of the rendered     *)
(* page and the document type of each.                                     *)
(***************************************************************************)
MaxAnchors == 2     \* anchors of a page

\* keywords_doc_type, in the order the dictionary is written.
keywords_doc_type ==
    << [type |-> "10-K", keywords |-> {"10-k", "annual report"}],
       [type |-> "10-Q", keywords |-> {"10-q", "quarterly report"}],
       [type |-> "8-K", keywords |-> {"8-k", "current report"}],
       [type |-> "Earnings Release", keywords |-> {"earnings release", "results announcement"}],
       [type |-> "Presentation",
        keywords |-> {"presentation", "slide deck", "investor deck", "webcast slides"}],
       [type |-> "Transcript", keywords |-> {"transcript", "earnings call transcript"}],
       [type |-> "SEC Filings", keywords |-> {"sec filings", "edgar filings"}] >>

generic_keywords == {"financials", "report", "filing", "investor", "quarterly", "annual"}

\* kw.replace(" ", "")
nospace(kw) ==
    CASE kw = "annual report" -> "annualreport"
      [] kw = "quarterly report" -> "quarterlyreport"
      [] kw = "current report" -> "currentreport"
      [] kw = "earnings release" -> "earningsrelease"
      [] kw = "results announcement" -> "resultsannouncement"
      [] kw = "slide deck" -> "slidedeck"
      [] kw = "investor deck" -> "investordeck"
      [] kw = "webcast slides" -> "webcastslides"
      [] kw = "earnings call transcript" -> "earningscalltranscript"
      [] kw = "sec filings" -> "secfilings"
      [] kw = "edgar filings" -> "edgarfilings"
      [] OTHER -> kw

\* The link texts and the href attributes of the model.
AnchorTexts ==
    {"Q3 Earnings Release.pdf", "Annual Report 10-K", "PDF Download", "SEC Filings",
     "Investor Presentation", "Quarterly earnings", "Contact"}

AnchorHrefs ==
    {"/docs/q3.pdf", "/docs/10-K-2025.pdf", "/presentation.pdf",
     "/filings/annualreport.pdf", "/sec-filings", "/financials.xlsx", "/contact", "#top",
     "https://www.sec.gov/cgi-bin/browse-edgar"}

\* a_tag.text.strip().lower() and href.lower()
lower(text) ==
    CASE text = "Q3 Earnings Release.pdf" -> "q3 earnings release.pdf"
      [] text = "Annual Report 10-K" -> "annual report 10-k"
      [] text = "PDF Download" -> "pdf download"
      [] text = "SEC Filings" -> "sec filings"
      [] text = "Investor Presentation" -> "investor presentation"
      [] text = "Quarterly earnings" -> "quarterly earnings"
      [] text = "Contact" -> "contact"
      [] text = "/docs/10-K-2025.pdf" -> "/docs/10-k-2025.pdf"
      [] OTHER -> text

\* The searched words that occur in a lower-case string (the `in` operator).
Substrings(string) ==
    CASE string = "q3 earnings release.pdf" -> {"earnings release", "earnings"}
      [] string = "annual report 10-k" -> {"10-k", "annual report", "annual", "report"}
      [] string = "sec filings" -> {"sec filings", "filing"}
      [] string = "investor presentation" -> {"presentation", "investor"}
      [] string = "quarterly earnings" -> {"quarterly", "earnings"}
      [] string = "/docs/10-k-2025.pdf" -> {"10-k"}
      [] string = "/presentation.pdf" -> {"presentation"}
      [] string = "/filings/annualreport.pdf" -> {"annualreport", "annual", "report", "filing"}
      [] string = "/sec-filings" -> {"filing"}
      [] string = "/financials.xlsx" -> {"financials"}
      [] OTHER -> {}

\* href.lower().endswith(ext) for one of the document extensions (line 141).
has_document_extension(href) ==
    lower(href) \in {"/docs/q3.pdf", "/docs/10-k-2025.pdf", "/presentation.pdf",
                     "/filings/annualreport.pdf", "/financials.xlsx"}

\* lines 122-126 and 129-133: the first group, in order from group i, one of
\* whose words (as they are, or without their spaces) is in the string.
RECURSIVE first_group(_, _, _)
first_group(string, without_spaces, i) ==
    IF i > Len(keywords_doc_type) THEN "Other"
    ELSE IF \E kw \in keywords_doc_type[i].keywords :
                (IF without_spaces THEN nospace(kw) ELSE kw) \in Substrings(string)
    THEN keywords_doc_type[i].type
    ELSE first_group(string, without_spaces, i + 1)

\* lines 136-151: the type of a link that no group matched.
fallback_type(link_text, href) ==
    IF /\ generic_keywords \cap (Substrings(link_text) \cup Substrings(lower(href))) # {}
       /\ has_document_extension(href)
    THEN (IF {"10-k", "10-q", "earnings", "slide", "transcript"} \cap Substrings(link_text) # {}
          THEN CASE "10-k" \in Substrings(link_text) -> "10-K"
                 [] "10-q" \in Substrings(link_text) -> "10-Q"
                 [] "earnings" \in Substrings(link_text) -> "Earnings Release"
                 [] "slide" \in Substrings(link_text) -> "Presentation"
                 [] OTHER -> "Transcript"
          ELSE "Financial Document")
    ELSE "Other"

\* A classifier that looks at the href before the text.
matched_doc_type_HrefFirst(text, href) ==
    LET by_href == first_group(lower(href), TRUE, 1)
        by_text == first_group(lower(text), FALSE, 1)
    IN  IF by_href # "Other" THEN by_href
        ELSE IF by_text # "Other" THEN by_text
        ELSE fallback_type(lower(text), href)

\* lines 121-151: matched_doc_type of an anchor.
matched_doc_type(text, href) ==
    LET by_text == first_group(lower(text), FALSE, 1)
        by_href == first_group(lower(href), TRUE, 1)
    IN  IF by_text # "Other" THEN by_text
        ELSE IF by_href # "Other" THEN by_href
        ELSE fallback_type(lower(text), href)

\* line 118: the anchor is passed over.
no_target(href) == href = "" \/ href = "#top"

\* urljoin(actual_page_url, href), for the rooted paths and the absolute
\* URL of the model.
urljoin(base, href) ==
    IF href = "https://www.sec.gov/cgi-bin/browse-edgar" THEN href ELSE base \o href

Anchor(text, href) == [text |-> text, href |-> href]

RECURSIVE grab_ir_links(_)
grab_ir_links(anchors) ==
    IF anchors = <<>> THEN <<>>
    ELSE LET a == Head(anchors)
             type == matched_doc_type(a.text, a.href)
         IN  (IF no_target(a.href) \/ type = "Other" THEN <<>>
              ELSE <<Link(urljoin("https://ir.example.com", a.href), a.text, type)>>)
                 \o grab_ir_links(Tail(anchors))

Anchors == {Anchor(text, href) : text \in AnchorTexts, href \in AnchorHrefs}

Pages == UNION {[1..n -> Anchors] : n \in 0..MaxAnchors}

InitPage ==
    /\ ConstructedFrom(MissingFile)
    /\ PipelineIdleFiles
    /\ process = Serving
    /\ threads = NoThreads
    /\ limiter = NoRequests
    /\ resolved = NotResolved
    /\ \E page \in Pages : links_found = [NoLinks EXCEPT !.anchors = page]

ParsePage ==
    /\ ~links_found.parsed
    /\ links_found' = [links_found EXCEPT !.parsed = TRUE,
                                          !.links = grab_ir_links(links_found.anchors)]
    /\ UNCHANGED <<storeVars, fsVars, runVars, process, threads, limiter, resolved>>

\* The answers and the disk a download of the page's links may meet.
PageEnvs ==
    {Env("ok", "c1", "application/pdf", "none"),
     Env("http_error", "c1", "text/html", "none"),
     Env("ok", "c1", "text/html", "makedirs")}

\* process_company, one turn of the loop over ir_links (lines 286-296); an
\* exception of download_document leaves the method without its results.
ProcessLink(env) ==
    /\ links_found.parsed
    /\ links_found.next <= Len(links_found.links)
    /\ LET link_info == links_found.links[links_found.next]
           f == download_document("WMT", link_info, env, today, artifacts, sidecars)
       IN  IF skip_link(link_info)
           THEN /\ links_found' = [links_found EXCEPT !.next = @ + 1]
                /\ UNCHANGED <<artifacts, sidecars>>
           ELSE /\ artifacts' = f.artifacts
                /\ sidecars' = f.sidecars
                /\ links_found' =
                       IF f.raised
                       THEN [links_found EXCEPT !.next = Len(links_found.links) + 1,
                                                !.download_results = <<>>, !.raised = TRUE]
                       ELSE [links_found EXCEPT
                                !.next = @ + 1,
                                !.download_results =
                                    Append(@, [link |-> link_info,
                                               status |-> f.result.status])]
    /\ UNCHANGED <<storeVars, today, runVars, process, threads, limiter, resolved>>

NextPage == ParsePage \/ \E env \in PageEnvs : ProcessLink(env)

SpecPage == InitPage /\ [][NextPage]_vars

\* The groups one of whose words is in the text, or in the href.
TextGroups(text) ==
    {i \in 1..Len(keywords_doc_type) :
        keywords_doc_type[i].keywords \cap Substrings(lower(text)) # {}}

HrefGroups(href) ==
    {i \in 1..Len(keywords_doc_type) :
        {nospace(kw) : kw \in keywords_doc_type[i].keywords} \cap Substrings(lower(href)) # {}}

Lowest(S) == CHOOSE i \in S : \A j \in S : i <= j

\* The tag the rule gives an anchor: the first group matching the text,
\* else the first group matching the href, else what the fallback says.
RuleTag(a) ==
    IF TextGroups(a.text) # {} THEN keywords_doc_type[Lowest(TextGroups(a.text))].type
    ELSE IF HrefGroups(a.href) # {} THEN keywords_doc_type[Lowest(HrefGroups(a.href))].type
    ELSE fallback_type(lower(a.text), a.href)

RECURSIVE RuleLinks(_)
RuleLinks(anchors) ==
    IF anchors = <<>> THEN <<>>
    ELSE (IF no_target(Head(anchors).href) \/ RuleTag(Head(anchors)) = "Other" THEN <<>>
          ELSE <<[url |-> urljoin("https://ir.example.com", Head(anchors).href),
                  type |-> RuleTag(Head(anchors))]>>)
             \o RuleLinks(Tail(anchors))

\* C26: the links of a parsed page are its anchors in order, each tagged
\* with the first group that matches its text, or, when none does, with the
\* first group that matches its href; an anchor that nothing classifies is
\* not among them.
C26_TextMatchWinsOverHref ==
    links_found.parsed =>
        /\ [i \in 1..Len(links_found.links) |->
               [url |-> links_found.links[i].url, type |-> links_found.links[i].type]]
              = RuleLinks(links_found.anchors)
        /\ \A i \in 1..Len(links_found.links) : links_found.links[i].type # "Other"

\* A parsed page with the anchor "Q3 Earnings Release.pdf" on an href of
\* another group, tagged by its text, and an anchor that was discarded.
C26_TextTaggedAndOneDiscarded ==
    /\ links_found.parsed
    /\ links_found.anchors =
           <<Anchor("Q3 Earnings Release.pdf", "/presentation.pdf"),
             Anchor("Contact", "/contact")>>
    /\ Len(links_found.links) = 1
    /\ links_found.links[1].type = "Earnings Release"

\* The link is one to a listing of SEC filings (the group "SEC Filings" of
\* grab_ir_links) on a site other than sec.gov.
GenericSecListing(link) ==
    /\ link.type \in {"SEC Filings", "SEC Filings Page"}
    /\ link.url \notin {"https://www.sec.gov/cgi-bin/browse-edgar"}

ResultsOf(link) ==
    {i \in 1..Len(links_found.download_results) : links_found.download_results[i].link = link}

\* C30: once process_company has returned the results of a page, no link to
\* a listing of SEC filings away from sec.gov has a download result, and
\* every other link has exactly one.
C30_ListingLinksSkipped ==
    (links_found.parsed /\ links_found.next > Len(links_found.links)
        /\ ~links_found.raised) =>
        \A i \in 1..Len(links_found.links) :
            LET link == links_found.links[i]
                same == {j \in 1..Len(links_found.links) : links_found.links[j] = link}
            IN  IF GenericSecListing(link) THEN ResultsOf(link) = {}
                ELSE Cardinality(ResultsOf(link)) = Cardinality(same)

(***************************************************************************)
(* tasks.py, _collect_sec_for_company: the filings the scheduled job asks  *)
(* download_recent_filings_documents to download.                          *)
(***************************************************************************)
MaxFeed == 6        \* filings in the submissions payload of a scheduled run

\* tasks.py lines 57-58
scheduled_form_types == {"10-K", "10-Q", "8-K"}
scheduled_count == 2

\* A well-formed payload of n filings, most recent first, with the given forms.
Feed(forms) ==
    Submissions("recent",
        Recent(Column("acc", Len(forms)), Array(forms), Column("filed", Len(forms)),
               Column("report", Len(forms)), Column("doc", Len(forms)),
               Column("description", Len(forms)), Column("size", Len(forms))))

Feeds == {Feed(forms) : forms \in UNION {[1..n -> scheduled_form_types] : n \in 0..MaxFeed}}

InitScheduled ==
    /\ ConstructedFrom(MissingFile)
    /\ PipelineIdleFiles
    /\ process = Serving
    /\ threads = NoThreads
    /\ limiter = NoRequests
    /\ links_found = NoLinks
    /\ \E answer \in Feeds : resolved = Resolve(get_fortune_100, "WMT", answer, {}, 0)

\* _collect_sec_for_company up to the list of filings (sec_fetcher.py 220):
\* download_recent_filings_documents then calls download_filing_document once
\* for the primary document of each filing of the list (226-234).
CollectSecForCompany ==
    /\ ~resolved.called
    /\ LET out == get_recent_filings_metadata(resolved.df, resolved.ticker, resolved.answer,
                                              scheduled_form_types, scheduled_count)
       IN  resolved' = [resolved EXCEPT !.called = TRUE,
                                        !.form_types = scheduled_form_types,
                                        !.count = scheduled_count,
                                        !.raised = out.raised, !.result = out.result,
                                        !.requests = out.requests, !.url = out.url]
    /\ UNCHANGED <<storeVars, fsVars, runVars, process, threads, limiter, links_found>>

NextScheduled == CollectSecForCompany

SpecScheduled == InitScheduled /\ [][NextScheduled]_vars

\* The positions of the payload, and of the list attempted, with a form.
FeedPositions(form) ==
    {i \in 1..Len(resolved.answer.recent.form.items) :
        resolved.answer.recent.form.items[i] = form}

AttemptedOf(form) ==
    [j \in 1..Len(SelectSeq(resolved.result, LAMBDA filing : filing.form = form)) |->
        SelectSeq(resolved.result, LAMBDA filing : filing.form = form)[j].accessionNumber]

\* C29: when the payload of a scheduled run holds at least 2 filings of each
\* of 10-K, 10-Q and 8-K, the run attempts the 2 most recent of each.
C29_TwoOfEachForm ==
    (resolved.called /\ \A form \in scheduled_form_types : Cardinality(FeedPositions(form)) >= 2)
        => \A form \in scheduled_form_types :
               AttemptedOf(form) = AccessionNumbers(Take(Ascending(FeedPositions(form)), 2))

(***************************************************************************)
(* A document on disk that the store does not hold.                        *)
(***************************************************************************)
\* The category a collection route stores under.
RouteCategory == IF run.kind = "route_ir" THEN "ir" ELSE "sec"

\* The store holds an entry with the deduplication key of m for the run's
\* ticker in the category.
HeldInStore(cat, m) ==
    /\ run.ticker \in DOMAIN document_metadata_store
    /\ \E i \in 1..Len(document_metadata_store[run.ticker][cat]) :
           DedupKey(document_metadata_store[run.ticker][cat][i]) = DedupKey(m)

\* C27: when a collection of a company has completed, the store holds the
\* metadata of every document the collection found on disk with its sidecar,
\* whether or not an earlier collection had stored it.
C27_FoundOnDiskIsInStore ==
    (run.kind \in {"route_ir", "route_sec"} /\ run.pc = "done" /\ run.answer.code = 200) =>
        \A i \in 1..Len(run.results) :
            run.results[i].status \in AlreadyPresent =>
                HeldInStore(RouteCategory, run.results[i].metadata)

\* C28: the results of a pass that are Failed are not passed to the store,
\* and the fetch of a reference whose last fetch was Failed sends a download
\* request and does not end in AlreadyPresent.
C28_FailedIsFetchedAgain ==
    /\ run.stored =>
           \A i \in 1..Len(run.results) :
               run.results[i].status \in Failed =>
                   \A j \in 1..Len(add_calls) : add_calls[j].url # run.results[i].url
    /\ last_fetch.prior_failed =>
           /\ last_fetch.requests = 1
           /\ last_fetch.status \notin AlreadyPresent

====
